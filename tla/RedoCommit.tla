----------------------------- MODULE RedoCommit -----------------------------
(***************************************************************************)
(* transaction.commit, mutateOnce and openStore of pkg/diffstore/internal/ *)
(* versioned: how one metadata transaction reaches the file.  Fresh slots  *)
(* are written first, where nothing refers to them.  The images of the     *)
(* existing pages go to the redo area, one commit descriptor publishes     *)
(* them, and only then are the home pages overwritten.  Any write may be   *)
(* torn by an I/O error or by the death of the owner; the next open        *)
(* replays a published redo area.                                          *)
(*                                                                         *)
(* A metadata page is abstracted to the slot it refers to, and a slot to   *)
(* the payload in it, so that what a reader sees of a page is the payload  *)
(* its image leads to.  The checksum of the commit descriptor is the index *)
(* and the images it was computed from.                                    *)
(***************************************************************************)
EXTENDS Naturals, FiniteSets

CONSTANTS
    Pages,      \* existing metadata pages, the control page among them
    Slots,      \* allocation slots
    Payloads,   \* what a slot can hold
    NoTx, Torn, Hole, Zero

ASSUME RedoCommitAssumption ==
    /\ Torn \notin Payloads /\ Hole \notin Payloads
    /\ Torn \notin Slots
    /\ Zero # Torn
    /\ \A W \in SUBSET Pages : NoTx \notin [W -> Payloads]
    /\ \A W \in SUBSET Pages : Zero \notin [W -> Slots] /\ Torn \notin [W -> Slots]

VARIABLES
    home,      \* page -> its image in place
    slot,      \* slot -> payload
    descr,     \* the commit page: Zero, Torn, or the checksummed log
    log,       \* the index and image area: page -> image, or Torn
    mem,       \* Store.ctrl and the page cache: page -> image
    tx,        \* the new payload of each page of the transaction in hand
    fresh,     \* page -> the slot allocated for it
    pc,        \* where commit, or the replay of openStore, is
    left,      \* the pages apply or replay has still to write
    fatal,     \* Store.fatal
    up,        \* an owner has the file open
    outcome    \* the answer to the last caller

fileVars == <<home, slot, descr, log>>
txVars == <<tx, fresh, left>>
vars == <<fileVars, mem, txVars, pc, fatal, up, outcome>>

Images == UNION {[W -> Slots] : W \in (SUBSET Pages) \ {{}}}
Txs == UNION {[W -> Payloads] : W \in (SUBSET Pages) \ {{}}}

Overlay(w, old) == [p \in Pages |-> IF p \in DOMAIN w THEN w[p] ELSE old[p]]

(* readRedo: a zero or torn descriptor publishes nothing; a descriptor that *)
(* does not match the area is an error.                                     *)
Published == descr \notin {Zero, Torn}
RedoValid == Published => descr = log
readRedo == IF Published /\ RedoValid THEN log ELSE <<>>

(* The pages as openView and openStore interpret the file. *)
Recovered == Overlay(readRedo, home)

-----------------------------------------------------------------------------
(* The owner's transaction. *)

(* fn(t): the pages to change, with a slot for each that nobody uses. *)
Begin ==
    /\ up /\ pc = "idle" /\ ~fatal
    /\ \E w \in Txs : \E f \in [DOMAIN w -> Slots \ {mem[p] : p \in Pages}] :
          /\ \A p, q \in DOMAIN w : f[p] = f[q] => p = q
          /\ tx' = w /\ fresh' = f
    /\ pc' = "reserve" /\ outcome' = "none"
    /\ UNCHANGED <<fileVars, mem, left, fatal, up>>

Goto(from, to) ==
    /\ up /\ pc = from
    /\ pc' = to
    /\ UNCHANGED <<mem, tx, fresh, fatal, up, outcome>>

Reserve == Goto("reserve", "data") /\ UNCHANGED <<fileVars, left>>

(* writeData and the new index pages. *)
WriteFresh ==
    /\ Goto("data", "reset")
    /\ slot' = [s \in Slots |-> IF \E p \in DOMAIN tx : fresh[p] = s
                                THEN tx[CHOOSE p \in DOMAIN tx : fresh[p] = s]
                                ELSE slot[s]]
    /\ UNCHANGED <<home, descr, log, left>>

ResetRedo ==
    /\ Goto("reset", "log")
    /\ descr' = Zero
    /\ UNCHANGED <<home, slot, log, left>>

WriteLog ==
    /\ Goto("log", "commit")
    /\ log' = fresh
    /\ UNCHANGED <<home, slot, descr, left>>

WriteCommit ==
    /\ Goto("commit", "apply")
    /\ descr' = fresh
    /\ left' = DOMAIN fresh
    /\ UNCHANGED <<home, slot, log>>

(* One home page, of a commit or of a replay. *)
ApplyPage(at, images) ==
    /\ pc = at
    /\ \E p \in left : /\ home' = [home EXCEPT ![p] = images[p]]
                       /\ left' = left \ {p}
    /\ UNCHANGED <<slot, descr, log, mem, tx, fresh, pc, fatal, up, outcome>>

Apply == up /\ ApplyPage("apply", fresh)

ClearRedo ==
    /\ up /\ pc = "apply" /\ left = {}
    /\ descr' = Zero
    /\ mem' = Overlay(fresh, mem)
    /\ tx' = NoTx /\ fresh' = <<>> /\ pc' = "idle" /\ outcome' = "ok"
    /\ UNCHANGED <<home, slot, log, left, fatal, up>>

(* commit without metadata pages: payload of the current epoch is written   *)
(* in place.                                                                *)
Overwrite ==
    /\ up /\ pc = "idle" /\ ~fatal
    /\ \E p \in Pages, v \in Payloads \cup {Torn} :
          /\ slot' = [slot EXCEPT ![mem[p]] = v]
          /\ outcome' = IF v = Torn THEN "error" ELSE "ok"
          /\ up' \in IF v = Torn THEN BOOLEAN ELSE {TRUE}
          /\ fatal' = (v = Torn /\ up')
    /\ UNCHANGED <<home, descr, log, mem, txVars, pc>>

-----------------------------------------------------------------------------
(* Failures. *)

(* A write that is under way can leave its target torn. *)
TearTarget ==
    \/ UNCHANGED fileVars
    \/ /\ pc = "data"
       /\ \E p \in DOMAIN tx : slot' = [slot EXCEPT ![fresh[p]] = Torn]
       /\ UNCHANGED <<home, descr, log>>
    \/ /\ pc = "log" /\ log' = Torn /\ UNCHANGED <<home, slot, descr>>
    \/ /\ pc = "commit" /\ descr' = Torn /\ UNCHANGED <<home, slot, log>>
    \/ /\ pc \in {"apply", "replay"} /\ left # {}
       /\ \E p \in left : home' = [home EXCEPT ![p] = Torn]
       /\ UNCHANGED <<slot, descr, log>>
    \/ /\ pc \in {"apply", "replay"} /\ left = {}
       /\ descr' = Torn
       /\ UNCHANGED <<home, slot, log>>

(* The slots of the failed transaction that the rollback punches. *)
Punched(S) == [s \in Slots |-> IF s \in S THEN Hole ELSE slot[s]]

Allocated == {fresh[p] : p \in DOMAIN fresh}

(* Mutation: the slots of a published transaction are punched too. *)
RollbackAlways ==
    /\ up /\ pc \in {"reserve", "data", "reset", "log", "commit", "apply"}
    /\ slot' = Punched(Allocated)
    /\ fatal' = TRUE
    /\ tx' = NoTx /\ fresh' = <<>> /\ left' = {} /\ pc' = "idle" /\ outcome' = "error"
    /\ UNCHANGED <<home, descr, log, mem, up>>

(* mutateOnceWithRedoBudget after commit failed.  Before the descriptor     *)
(* write is attempted the allocated slots are punched; out of space is then *)
(* only an answer, and any other error, of commit or of a punch, is fatal.  *)
Rollback ==
    /\ up /\ pc \in {"reserve", "data", "reset", "log", "commit"}
    /\ \E S \in SUBSET Allocated :
          /\ slot' = Punched(S)
          /\ \E noSpace \in BOOLEAN :
                fatal' = ~(pc = "reserve" /\ noSpace /\ S = Allocated)
    /\ log' \in IF pc = "log" THEN {log, Torn} ELSE {log}
    /\ tx' = NoTx /\ fresh' = <<>> /\ left' = {} /\ pc' = "idle" /\ outcome' = "error"
    /\ UNCHANGED <<home, descr, mem, up>>

(* Mutation: an error after the descriptor write is only answered. *)
CommittedErrorSoft ==
    /\ up /\ pc \in {"commit", "apply"}
    /\ TearTarget
    /\ tx' = NoTx /\ fresh' = <<>> /\ left' = {} /\ pc' = "idle" /\ outcome' = "error"
    /\ UNCHANGED <<mem, fatal, up>>

(* From the descriptor write on the result is uncertain: the slots are kept *)
(* for the replay and the store fails.                                      *)
CommittedError ==
    /\ up /\ pc \in {"commit", "apply"}
    /\ TearTarget
    /\ fatal' = TRUE
    /\ tx' = NoTx /\ fresh' = <<>> /\ left' = {} /\ pc' = "idle" /\ outcome' = "error"
    /\ UNCHANGED <<mem, up>>

(* The owner dies, in the middle of a write or between two. *)
Crash ==
    /\ up
    /\ TearTarget
    /\ up' = FALSE /\ fatal' = FALSE
    /\ outcome' = IF tx # NoTx THEN "error" ELSE outcome
    /\ tx' = NoTx /\ fresh' = <<>> /\ left' = {} /\ pc' = "idle"
    /\ UNCHANGED mem

-----------------------------------------------------------------------------
(* openStore. *)

Open ==
    /\ ~up /\ pc = "idle"
    /\ RedoValid
    /\ up' = TRUE
    /\ pc' = IF Published THEN "replay" ELSE "load"
    /\ left' = DOMAIN readRedo
    /\ UNCHANGED <<fileVars, mem, tx, fresh, fatal, outcome>>

Replay == up /\ ApplyPage("replay", log)

ClearReplayed ==
    /\ up /\ pc = "replay" /\ left = {}
    /\ descr' = Zero
    /\ pc' = "load"
    /\ UNCHANGED <<home, slot, log, mem, txVars, fatal, up, outcome>>

Load ==
    /\ up /\ pc = "load"
    /\ mem' = home
    /\ pc' = "idle"
    /\ UNCHANGED <<fileVars, txVars, fatal, up, outcome>>

Init ==
    /\ mem \in [Pages -> Slots]
    /\ \A p, q \in Pages : mem[p] = mem[q] => p = q
    /\ home = mem
    /\ slot \in [Slots -> Payloads \cup {Hole}]
    /\ \A s \in Slots : slot[s] = Hole <=> \A p \in Pages : mem[p] # s
    /\ descr = Zero /\ log = <<>>
    /\ tx = NoTx /\ fresh = <<>> /\ left = {} /\ pc = "idle"
    /\ fatal = FALSE /\ up = TRUE /\ outcome = "none"

Next ==
    \/ Begin \/ Reserve \/ WriteFresh \/ ResetRedo \/ WriteLog \/ WriteCommit
    \/ Apply \/ ClearRedo \/ Overwrite
    \/ Rollback \/ CommittedError \/ Crash
    \/ Open \/ Replay \/ ClearReplayed \/ Load

Spec == Init /\ [][Next]_vars

-----------------------------------------------------------------------------
(* Every variable holds a value its code counterpart can hold. *)
TypeOK ==
    /\ home \in [Pages -> Slots \cup {Torn}]
    /\ slot \in [Slots -> Payloads \cup {Torn, Hole}]
    /\ descr \in Images \cup {Zero, Torn}
    /\ log \in Images \cup {<<>>, Torn}
    /\ mem \in [Pages -> Slots]
    /\ tx \in Txs \cup {NoTx}
    /\ fresh \in Images \cup {<<>>}
    /\ pc \in {"idle", "reserve", "data", "reset", "log", "commit", "apply", "replay", "load"}
    /\ left \subseteq Pages
    /\ fatal \in BOOLEAN /\ up \in BOOLEAN
    /\ outcome \in {"none", "ok", "error"}

(* However commit was interrupted, readRedo does not refuse the file: a     *)
(* descriptor that survives always matches the index and images under it.   *)
(* A store that still takes requests works from the metadata that the file  *)
(* would be recovered to: Store.ctrl and the cache are changed only by a    *)
(* commit that is complete, and an uncertain commit stops the store.        *)
RecoveryIsExact ==
    /\ Published => descr = log
    /\ up /\ ~fatal /\ pc = "idle" => mem = Recovered

(* The file under crashes, torn writes and replays implements transactions  *)
(* that are published as a whole or not at all (AtomicCommit): mutateOnce   *)
(* answers without error only if a reader, and any later owner, sees every  *)
(* page of the transaction.                                                 *)
Atomic == INSTANCE AtomicCommit WITH
    Records <- Pages, Contents <- Payloads, Damaged <- Torn,
    db <- [p \in Pages |-> slot[Recovered[p]]],
    published <- pc = "apply"

CommitIsAtomic == Atomic!Spec

=============================================================================
