-------------------------------- MODULE Paging --------------------------------
(***************************************************************************)
(* A list read in pages (tools/paging.go, and go-kt's helpers): every list *)
(* takes a limit and an offset, which may be any numbers, and answers its  *)
(* page with the offset of the next, 0 when it was the last.               *)
(***************************************************************************)
EXTENDS Integers, Sequences

CONSTANTS DefaultLimit,  \* 100
          MaxLimit       \* 1000

ASSUME LimitAssumption ==
  /\ {DefaultLimit, MaxLimit} \subseteq Nat
  /\ 0 < DefaultLimit /\ DefaultLimit <= MaxLimit

AtMost(n, limit) == IF n < limit THEN n ELSE limit

(* Bug: a limit of none is taken as it is. *)
LimitAsAsked(asked) == IF asked < 0 THEN DefaultLimit ELSE asked

LimitOr(asked) == IF asked <= 0 THEN DefaultLimit ELSE asked

(* pageArgs. *)
PageLimit(asked) == AtMost(LimitOr(asked), MaxLimit)
PageOffset(from) == IF from < 0 THEN 0 ELSE from

(* Where the page after one of n rows starts, or 0. *)
NextOffset(offset, n, total) ==
  IF n = 0 \/ offset + n >= total THEN 0 ELSE offset + n

(* Bug: there is a next page, a limit further on, whatever there is left. *)
PagedOn(rows, asked, from) ==
  LET offset == AtMost(PageOffset(from), Len(rows))
  IN [rows |-> SubSeq(rows, offset + 1, AtMost(offset + PageLimit(asked), Len(rows))),
      next |-> PageOffset(from) + PageLimit(asked)]

(* paged: the rows of the page asked for, and where the next one starts. *)
Paged(rows, asked, from) ==
  LET offset == AtMost(PageOffset(from), Len(rows))
      page == SubSeq(rows, offset + 1, AtMost(offset + PageLimit(asked), Len(rows)))
  IN [rows |-> page, next |-> NextOffset(offset, Len(page), Len(rows))]
=============================================================================
