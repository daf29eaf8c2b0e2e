----------------------------- MODULE Selecting -----------------------------
(***************************************************************************)
(* Array.prototype.filter, and the loops that do the same, in              *)
(* src/service.ts, enhanced-provider.ts and dual-layer-provider.ts: the    *)
(* elements of an array that are among those to keep, in their order.  A   *)
(* fold, so that proofs can follow it element by element.  Likewise what   *)
(* push(...) makes of several arrays, and a Set's order of insertion.      *)
(***************************************************************************)
EXTENDS Integers, SequencesExt

KeepIf(keep, kept, x) == IF x \in keep THEN Append(kept, x) ELSE kept
Among(s, keep) == FoldLeft(LAMBDA kept, x : KeepIf(keep, kept, x), <<>>, s)

Concat(ss) == FoldLeft(LAMBDA all, s : all \o s, <<>>, ss)

AddOnce(once, x) == IF Contains(once, x) THEN once ELSE Append(once, x)
Once(s) == FoldLeft(AddOnce, <<>>, s)
=============================================================================
