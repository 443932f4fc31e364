--------------------------- MODULE EncryptedStore ---------------------------
(***************************************************************************)
(* What a rotation promises about the stored values of its target, with no *)
(* word about batches, transactions, checkpoints or retries: the           *)
(* application adds rows and fills in empty fields, and a rotation does    *)
(* nothing but move values to the new DEK version, whole rows of them or   *)
(* none.  RecordMigration implements this specification.                   *)
(***************************************************************************)
EXTENDS Naturals

CONSTANTS
  Ids,          \* primary keys
  NewVersion    \* the DEK version of the rotation

VARIABLE
  cells         \* cells[i][f]: field f of row i, for the rows there are

(* A cell is its DEK version, 0 when it is no envelope; what is inside; and *)
(* whether it opens with the associated data (AAD) of its own place.        *)
IsEmpty(c) == c.ver = 0 /\ c.plain = <<>>
Whole(row) == \A f \in DOMAIN row : row[f].opens \/ IsEmpty(row[f])

\* The rows of an installation that is rotated for the first time.
Init == \A i \in DOMAIN cells : \A f \in DOMAIN cells[i] : cells[i][f].ver # NewVersion

Insert ==
  \E i \in Ids \ DOMAIN cells :
    /\ DOMAIN cells' = DOMAIN cells \cup {i}
    /\ \A j \in DOMAIN cells : cells'[j] = cells[j]

\* An empty field gets a value, which opens.
Put ==
  \E i \in DOMAIN cells : \E f \in DOMAIN cells[i] :
    /\ IsEmpty(cells[i][f])
    /\ cells'[i][f].opens
    /\ cells' = [cells EXCEPT ![i][f] = cells'[i][f]]

Clear == DOMAIN cells' = {}

\* Cells that open move to the new version, with what is inside.  The row of
\* one that does not open is left as it is, to the last field.
Rewrap ==
  /\ DOMAIN cells' = DOMAIN cells
  /\ \A i \in DOMAIN cells :
       \/ cells'[i] = cells[i]
       \/ /\ Whole(cells[i])
          /\ \E moved \in SUBSET {f \in DOMAIN cells[i] : cells[i][f].opens} :
               cells'[i] = [f \in DOMAIN cells[i] |->
                              IF f \in moved
                              THEN [cells[i][f] EXCEPT !.ver = NewVersion]
                              ELSE cells[i][f]]

Next == Insert \/ Put \/ Clear \/ Rewrap

Spec == Init /\ [][Next]_cells

=============================================================================
