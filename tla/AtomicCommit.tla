---------------------------- MODULE AtomicCommit ----------------------------
(***************************************************************************)
(* What a metadata transaction of the versioned store promises: a caller   *)
(* offers new contents for some records; the file shows all of them or     *)
(* none, a success is reported only for contents that are in the file, and *)
(* a failed or interrupted transaction may have gone either way but never  *)
(* half.  A record rewritten in place is outside the promise: it may be    *)
(* damaged, alone.                                                         *)
(***************************************************************************)
CONSTANTS Records, Contents, NoTx, Damaged

VARIABLES
    db,        \* what a reader of the file sees
    tx,        \* the offered contents, NoTx between transactions
    published, \* the file shows the offered contents
    outcome    \* the answer to the last caller

vars == <<db, tx, published, outcome>>

(* db with the records of w replaced. *)
Overlay(w, old) == [r \in Records |-> IF r \in DOMAIN w THEN w[r] ELSE old[r]]

Txs == UNION {[W -> Contents] : W \in (SUBSET Records) \ {{}}}

Init ==
    /\ db \in [Records -> Contents]
    /\ tx = NoTx /\ published = FALSE /\ outcome = "none"

Begin ==
    /\ tx = NoTx
    /\ tx' \in Txs
    /\ published' = FALSE /\ outcome' = "none"
    /\ UNCHANGED db

Publish ==
    /\ tx # NoTx /\ ~published
    /\ published' = TRUE
    /\ db' = Overlay(tx, db)
    /\ UNCHANGED <<tx, outcome>>

Succeed ==
    /\ tx # NoTx /\ published
    /\ tx' = NoTx /\ published' = FALSE /\ outcome' = "ok"
    /\ UNCHANGED db

Fail ==
    /\ tx # NoTx
    /\ tx' = NoTx /\ published' = FALSE /\ outcome' = "error"
    /\ UNCHANGED db

Rewrite ==
    /\ tx = NoTx
    /\ \E r \in Records, c \in Contents \cup {Damaged} :
          /\ outcome' = IF c = Damaged THEN "error" ELSE "ok"
          /\ db' = [db EXCEPT ![r] = c]
    /\ UNCHANGED <<tx, published>>

Next == Begin \/ Publish \/ Succeed \/ Fail \/ Rewrite

Spec == Init /\ [][Next]_vars
=============================================================================
