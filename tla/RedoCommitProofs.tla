-------------------------- MODULE RedoCommitProofs --------------------------
(***************************************************************************)
(* Proofs about RedoCommit, for any number of pages, slots and payloads:   *)
(* the file can always be recovered, and the commit through the redo area  *)
(* implements AtomicCommit.                                                *)
(***************************************************************************)
EXTENDS RedoCommit, TLAPS

Preparing == {"reserve", "data", "reset", "log", "commit"}

(* A descriptor that survives matches the area under it and covers every    *)
(* home page that a write may have torn; no two pages share a slot.         *)
RedoInv ==
    /\ Published => descr = log
    /\ \A p \in Pages : home[p] = Torn => Published /\ p \in DOMAIN log
    /\ \A p, q \in Pages : Recovered[p] = Recovered[q] => p = q

(* The transaction in hand: its slots are its own, and from the write of    *)
(* the fresh slots on they hold its payloads.                               *)
TxInv ==
    /\ pc \in {"idle", "replay", "load"} => tx = NoTx /\ fresh = <<>>
    /\ ~up \/ fatal => pc = "idle"
    /\ fatal => up
    /\ pc \in Preparing \cup {"apply"} =>
          /\ tx \in Txs /\ fresh \in Images /\ DOMAIN fresh = DOMAIN tx
          /\ \A p, q \in DOMAIN fresh : fresh[p] = fresh[q] => p = q
          /\ \A p \in DOMAIN fresh, q \in Pages : fresh[p] # mem[q]
    /\ pc \in {"reset", "log", "commit", "apply"} =>
          \A p \in DOMAIN tx : slot[fresh[p]] = tx[p]

(* How far the transaction, or the replay, has come in the file. *)
PlaceInv ==
    /\ up /\ ~fatal /\ pc \in Preparing \cup {"idle"} => home = mem /\ ~Published
    /\ pc \in {"log", "commit"} => descr = Zero
    /\ pc = "commit" => log = fresh
    /\ pc = "apply" =>
          /\ descr = fresh /\ log = fresh /\ left \subseteq DOMAIN fresh
          /\ \A p \in Pages \ DOMAIN fresh : home[p] = mem[p]
          /\ \A p \in DOMAIN fresh \ left : home[p] = fresh[p]
    /\ pc = "replay" =>
          /\ Published /\ left \subseteq DOMAIN log
          /\ \A p \in DOMAIN log \ left : home[p] = log[p]
    /\ pc = "load" => ~Published

IInv == TypeOK /\ RedoInv /\ TxInv /\ PlaceInv

-----------------------------------------------------------------------------
USE DEF Preparing

(* The images of a log are slots of some pages; no image is a zero or torn  *)
(* descriptor.                                                              *)
LEMMA ImageTypes ==
  ASSUME NEW f \in Images
  PROVE  /\ DOMAIN f \subseteq Pages /\ f \in [DOMAIN f -> Slots]
         /\ f # Zero /\ f # Torn
  <1>1. PICK W \in (SUBSET Pages) \ {{}} : f \in [W -> Slots]
    BY DEF Images
  <1>2. DOMAIN f = W
    BY <1>1
  <1> QED BY <1>1, <1>2, RedoCommitAssumption

(* A transaction writes payloads of some pages; none is the missing one.     *)
LEMMA TxTypes ==
  ASSUME NEW w \in Txs
  PROVE  DOMAIN w \subseteq Pages /\ DOMAIN w # {} /\ w \in [DOMAIN w -> Payloads] /\ w # NoTx
  <1>1. PICK W \in (SUBSET Pages) \ {{}} : w \in [W -> Payloads]
    BY DEF Txs
  <1>2. DOMAIN w = W
    BY <1>1
  <1> QED BY <1>1, <1>2, RedoCommitAssumption

(* The slots of a non-empty set of pages are an image.                       *)
LEMMA ImagesContain ==
  ASSUME NEW W \in SUBSET Pages, W # {}, NEW f \in [W -> Slots]
  PROVE  f \in Images
  BY DEF Images

(* The area of a zero descriptor lists no page.                              *)
LEMMA EmptyDomain == DOMAIN <<>> = {}
  OBVIOUS

(* What openStore makes of a descriptor, an area and the home pages. *)
RecoveredFrom(d, l, h) == Overlay(IF d \notin {Zero, Torn} /\ d = l THEN l ELSE <<>>, h)

(* The recovered pages, now and after a step, from the file's three parts.   *)
LEMMA RecoveredDef ==
  /\ Recovered = RecoveredFrom(descr, log, home)
  /\ Recovered' = RecoveredFrom(descr', log', home')
  BY DEF Recovered, RecoveredFrom, readRedo, Published, RedoValid

(* Without a published descriptor openStore takes the home pages.            *)
LEMMA RecoveredPlain ==
  ASSUME NEW d \in {Zero, Torn}, NEW l, NEW h \in [Pages -> Slots \cup {Torn}]
  PROVE  RecoveredFrom(d, l, h) = h
  BY EmptyDomain DEF RecoveredFrom, Overlay

(* Under a published descriptor the area wins over the home pages.           *)
LEMMA RecoveredLogged ==
  ASSUME NEW l, l # Zero, l # Torn, NEW h
  PROVE  RecoveredFrom(l, l, h) = [p \in Pages |-> IF p \in DOMAIN l THEN l[p] ELSE h[p]]
  BY DEF RecoveredFrom, Overlay

(* Every page is recovered to a slot. *)
LEMMA RecoveredTypes ==
  ASSUME TypeOK, RedoInv
  PROVE  Recovered \in [Pages -> Slots]
  <1>1. CASE Published
    <2>1. log \in Images /\ descr = log /\ log # Zero /\ log # Torn
      BY <1>1, ImageTypes DEF TypeOK, RedoInv, Published
    <2>2. Recovered = [p \in Pages |-> IF p \in DOMAIN log THEN log[p] ELSE home[p]]
      BY <2>1, RecoveredDef, RecoveredLogged
    <2> QED BY <2>1, <2>2, ImageTypes DEF TypeOK, RedoInv
  <1>2. CASE ~Published
    <2>1. Recovered = home
      BY <1>2, RecoveredDef, RecoveredPlain DEF TypeOK, Published
    <2> QED BY <1>2, <2>1 DEF TypeOK, RedoInv
  <1> QED BY <1>1, <1>2

(* What a reader of the file sees. *)
Db == [p \in Pages |-> slot[Recovered[p]]]

(* A step that AtomicCommit allows. *)
Simulated == [Atomic!Next]_(Atomic!vars)

(* A step that keeps the recovered slots and their payloads keeps what is read. *)
LEMMA DbKept ==
  ASSUME Recovered' = Recovered, \A p \in Pages : slot'[Recovered[p]] = slot[Recovered[p]]
  PROVE  Db' = Db
  BY DEF Db

(* A step that keeps what is read and the outcome is a stutter of AtomicCommit. *)
LEMMA Stutters ==
  ASSUME Db' = Db, UNCHANGED <<tx, outcome>>, pc = "apply" <=> pc' = "apply"
  PROVE  Simulated
  BY DEF Simulated, Atomic!vars, Db

(* The file stays as it is. *)
LEMMA FileKept ==
  ASSUME UNCHANGED fileVars
  PROVE  Recovered' = Recovered /\ Db' = Db /\ Published' = Published
  BY DEF fileVars, Db, Recovered, Overlay, readRedo, Published, RedoValid

-----------------------------------------------------------------------------
(* fn(t) allocates slots that nothing uses. *)
LEMMA BeginStep ==
  ASSUME IInv, Begin PROVE IInv' /\ Simulated
  <1>1. PICK w \in Txs : \E f \in [DOMAIN w -> Slots \ {mem[p] : p \in Pages}] :
             /\ \A p, q \in DOMAIN w : f[p] = f[q] => p = q
             /\ tx' = w /\ fresh' = f
    BY DEF Begin
  <1>2. PICK f \in [DOMAIN w -> Slots \ {mem[p] : p \in Pages}] :
             /\ \A p, q \in DOMAIN w : f[p] = f[q] => p = q
             /\ tx' = w /\ fresh' = f
    BY <1>1
  <1>3. /\ up /\ pc = "idle" /\ ~fatal /\ pc' = "reserve" /\ outcome' = "none"
        /\ UNCHANGED <<home, slot, descr, log, mem, left, fatal, up>>
    BY DEF Begin, fileVars
  <1>4. Recovered' = Recovered /\ Db' = Db /\ Published' = Published
    BY FileKept DEF Begin
  <1>5. DOMAIN w \subseteq Pages /\ DOMAIN w # {} /\ DOMAIN f = DOMAIN w /\ w # NoTx
    BY TxTypes
  <1>6. f \in Images
    BY <1>5, ImagesContain
  <1>7. TypeOK'
    BY <1>2, <1>3, <1>6 DEF IInv, TypeOK
  <1>8. RedoInv'
    BY <1>3, <1>4 DEF IInv, RedoInv
  <1>9. TxInv'
    BY <1>2, <1>3, <1>5, <1>6 DEF IInv, TxInv
  <1>10. PlaceInv'
    BY <1>3, <1>4 DEF IInv, PlaceInv
  <1>11. Simulated
    <2>1. tx = NoTx
      BY <1>3 DEF IInv, TxInv
    <2>2. Atomic!Begin
      BY <1>2, <1>3, <1>4, <2>1 DEF Atomic!Begin, Atomic!Txs, Txs, Db
    <2> QED BY <2>2 DEF Simulated, Atomic!Next
  <1> QED BY <1>7, <1>8, <1>9, <1>10, <1>11 DEF IInv

(* While a transaction is prepared the file is recovered to Store.ctrl and  *)
(* the cache, and none of its slots is in use.                              *)
LEMMA Prepared ==
  ASSUME IInv, pc \in Preparing
  PROVE  /\ up /\ ~fatal /\ Recovered = mem /\ home = mem /\ ~Published
         /\ descr \in {Zero, Torn}
         /\ tx \in Txs /\ fresh \in Images /\ DOMAIN fresh = DOMAIN tx
         /\ \A p \in DOMAIN fresh, q \in Pages : fresh[p] # Recovered[q]
  <1>1. up /\ ~fatal
    BY DEF IInv, TxInv, TypeOK
  <1>2. home = mem /\ ~Published /\ descr \in {Zero, Torn}
    BY <1>1 DEF IInv, PlaceInv, Published
  <1>3. Recovered = mem
    BY <1>2, RecoveredDef, RecoveredPlain DEF IInv, TypeOK
  <1> QED BY <1>1, <1>2, <1>3 DEF IInv, TxInv

(* The slots of the transaction are allocated.                               *)
LEMMA ReserveStep ==
  ASSUME IInv, Reserve PROVE IInv' /\ Simulated
  <1>1. /\ pc = "reserve" /\ pc' = "data"
        /\ UNCHANGED <<home, slot, descr, log, mem, tx, fresh, fatal, up, outcome, left>>
    BY DEF Reserve, Goto, fileVars
  <1>2. Recovered' = Recovered /\ Db' = Db /\ Published' = Published
    BY FileKept DEF Reserve
  <1>3. TypeOK'
    BY <1>1 DEF IInv, TypeOK
  <1>4. RedoInv' /\ TxInv' /\ PlaceInv'
    BY <1>1, <1>2 DEF IInv, RedoInv, TxInv, PlaceInv
  <1>5. Simulated
    BY <1>1, <1>2, Stutters
  <1> QED BY <1>3, <1>4, <1>5 DEF IInv

(* Fresh slots are written where nothing refers to them. *)
LEMMA WriteFreshStep ==
  ASSUME IInv, WriteFresh PROVE IInv' /\ Simulated
  <1>1. /\ pc = "data" /\ pc' = "reset"
        /\ UNCHANGED <<home, descr, log, mem, tx, fresh, fatal, up, outcome, left>>
    BY DEF WriteFresh, Goto
  <1>2. slot' = [s \in Slots |-> IF \E p \in DOMAIN tx : fresh[p] = s
                                 THEN tx[CHOOSE p \in DOMAIN tx : fresh[p] = s]
                                 ELSE slot[s]]
    BY DEF WriteFresh
  <1>3. /\ Recovered = mem /\ ~Published /\ home = mem /\ descr \in {Zero, Torn}
        /\ tx \in Txs /\ fresh \in Images /\ DOMAIN fresh = DOMAIN tx
        /\ \A p \in DOMAIN fresh, q \in Pages : fresh[p] # Recovered[q]
    BY <1>1, Prepared
  <1>4. ASSUME NEW p \in DOMAIN tx
        PROVE  slot'[fresh[p]] = tx[p]
    <2>1. (CHOOSE q \in DOMAIN tx : fresh[q] = fresh[p]) = p
      BY <1>1, <1>3, <1>4 DEF IInv, TxInv
    <2>2. fresh[p] \in Slots
      BY <1>3, ImageTypes
    <2> QED BY <1>2, <2>1, <2>2
  <1>5. ASSUME NEW s \in Slots, \A p \in DOMAIN tx : fresh[p] # s
        PROVE  slot'[s] = slot[s]
    BY <1>2, <1>5
  <1>6. slot' \in [Slots -> Payloads \cup {Torn, Hole}]
    <2>1. ASSUME NEW s \in Slots PROVE slot'[s] \in Payloads \cup {Torn, Hole}
      <3>1. CASE \E p \in DOMAIN tx : fresh[p] = s
        BY <3>1, <1>3, <1>4, TxTypes
      <3>2. CASE \A p \in DOMAIN tx : fresh[p] # s
        BY <3>2, <1>5 DEF IInv, TypeOK
      <3> QED BY <3>1, <3>2
    <2> QED BY <1>2, <2>1
  <1>7. Recovered' = Recovered /\ Published' = Published
    BY <1>1, RecoveredDef DEF Published
  <1>8. Db' = Db
    <2>1. ASSUME NEW p \in Pages PROVE slot'[Recovered[p]] = slot[Recovered[p]]
      BY <1>3, <1>5, RecoveredTypes DEF IInv
    <2> QED BY <2>1, <1>7, DbKept
  <1>9. TypeOK'
    BY <1>1, <1>6 DEF IInv, TypeOK
  <1>10. RedoInv' /\ PlaceInv'
    BY <1>1, <1>7 DEF IInv, RedoInv, PlaceInv
  <1>11. TxInv'
    BY <1>1, <1>4 DEF IInv, TxInv
  <1>12. Simulated
    BY <1>1, <1>8, Stutters
  <1> QED BY <1>9, <1>10, <1>11, <1>12 DEF IInv

(* The old descriptor is cleared before the area under it is written. *)
LEMMA ResetRedoStep ==
  ASSUME IInv, ResetRedo PROVE IInv' /\ Simulated
  <1>1. /\ pc = "reset" /\ pc' = "log" /\ descr' = Zero
        /\ UNCHANGED <<home, slot, log, mem, tx, fresh, fatal, up, outcome, left>>
    BY DEF ResetRedo, Goto
  <1>2. Recovered = home /\ home = mem
    BY <1>1, Prepared
  <1>3. ~Published' /\ Recovered' = Recovered
    BY <1>1, <1>2, RecoveredDef, RecoveredPlain DEF Published, IInv, TypeOK
  <1>4. Db' = Db
    BY <1>1, <1>3, DbKept
  <1>5. TypeOK'
    BY <1>1 DEF IInv, TypeOK
  <1>6. RedoInv'
    BY <1>1, <1>3, Prepared DEF IInv, RedoInv
  <1>7. TxInv' /\ PlaceInv'
    BY <1>1, <1>3 DEF IInv, TxInv, PlaceInv
  <1>8. Simulated
    BY <1>1, <1>4, Stutters
  <1> QED BY <1>5, <1>6, <1>7, <1>8 DEF IInv

(* The area is written under a cleared descriptor.                           *)
LEMMA WriteLogStep ==
  ASSUME IInv, WriteLog PROVE IInv' /\ Simulated
  <1>1. /\ pc = "log" /\ pc' = "commit" /\ log' = fresh
        /\ UNCHANGED <<home, slot, descr, mem, tx, fresh, fatal, up, outcome, left>>
    BY DEF WriteLog, Goto
  <1>2. descr = Zero /\ Recovered = home /\ ~Published /\ fresh \in Images
    BY <1>1, Prepared DEF IInv, PlaceInv
  <1>3. ~Published' /\ Recovered' = Recovered
    BY <1>1, <1>2, RecoveredDef, RecoveredPlain DEF Published, IInv, TypeOK
  <1>4. Db' = Db
    BY <1>1, <1>3, DbKept
  <1>5. TypeOK'
    BY <1>1, <1>2 DEF IInv, TypeOK
  <1>6. RedoInv'
    BY <1>1, <1>2, <1>3 DEF IInv, RedoInv
  <1>7. TxInv' /\ PlaceInv'
    BY <1>1, <1>2, <1>3 DEF IInv, TxInv, PlaceInv
  <1>8. Simulated
    BY <1>1, <1>4, Stutters
  <1> QED BY <1>5, <1>6, <1>7, <1>8 DEF IInv

(* One write publishes the transaction. *)
LEMMA WriteCommitStep ==
  ASSUME IInv, WriteCommit PROVE IInv' /\ Simulated
  <1>1. /\ pc = "commit" /\ pc' = "apply" /\ descr' = fresh /\ left' = DOMAIN fresh
        /\ UNCHANGED <<home, slot, log, mem, tx, fresh, fatal, up, outcome>>
    BY DEF WriteCommit, Goto
  <1>2. /\ log = fresh /\ Recovered = home /\ home = mem /\ ~Published
        /\ fresh \in Images /\ tx \in Txs /\ DOMAIN fresh = DOMAIN tx
        /\ \A p \in DOMAIN fresh, q \in Pages : fresh[p] # Recovered[q]
    BY <1>1, Prepared DEF IInv, PlaceInv
  <1>3. DOMAIN fresh \subseteq Pages /\ fresh # Zero /\ fresh # Torn
    BY <1>2, ImageTypes
  <1>4. /\ Published'
        /\ Recovered' = [p \in Pages |-> IF p \in DOMAIN fresh THEN fresh[p] ELSE Recovered[p]]
    <2>1. Recovered' = RecoveredFrom(fresh, fresh, Recovered)
      BY <1>1, <1>2, RecoveredDef
    <2> QED BY <1>1, <1>3, <2>1, RecoveredLogged DEF Published
  <1>5. TypeOK'
    BY <1>1, <1>2, <1>3 DEF IInv, TypeOK
  <1>6. RedoInv'
    <2>1. ASSUME NEW p \in Pages, NEW q \in Pages, Recovered'[p] = Recovered'[q] PROVE p = q
      BY <1>1, <1>2, <1>4, <2>1 DEF IInv, RedoInv, TxInv
    <2> QED BY <1>1, <1>2, <1>4, <2>1 DEF IInv, RedoInv
  <1>7. TxInv' /\ PlaceInv'
    BY <1>1, <1>2, <1>4 DEF IInv, TxInv, PlaceInv
  <1>8. Atomic!Publish
    <2>1. tx # NoTx
      BY <1>2, TxTypes
    <2>2. Db' = Atomic!Overlay(tx, Db)
      <3>1. ASSUME NEW p \in Pages
            PROVE  slot'[Recovered'[p]] = IF p \in DOMAIN tx THEN tx[p] ELSE slot[Recovered[p]]
        BY <1>1, <1>2, <1>4 DEF IInv, TxInv
      <3> QED BY <3>1 DEF Db, Atomic!Overlay
    <2> QED BY <1>1, <2>1, <2>2 DEF Atomic!Publish, Db
  <1> QED BY <1>5, <1>6, <1>7, <1>8 DEF IInv, Simulated, Atomic!Next

-----------------------------------------------------------------------------
(* A home page that the descriptor covers may be written, or torn. *)
LEMMA CoveredWrite ==
  ASSUME IInv, Published, NEW p \in DOMAIN log, NEW v,
         home' = [home EXCEPT ![p] = v], UNCHANGED <<slot, descr, log>>
  PROVE  /\ Recovered' = Recovered /\ Db' = Db /\ Published'
         /\ DOMAIN log \subseteq Pages /\ log[p] \in Slots
  <1>1. log \in Images /\ descr = log /\ log # Zero /\ log # Torn
    BY ImageTypes DEF IInv, TypeOK, RedoInv, Published
  <1>2. Recovered = [q \in Pages |-> IF q \in DOMAIN log THEN log[q] ELSE home[q]]
    BY <1>1, RecoveredDef, RecoveredLogged
  <1>3. Recovered' = [q \in Pages |-> IF q \in DOMAIN log THEN log[q] ELSE home'[q]]
    <2>1. Recovered' = RecoveredFrom(log, log, home')
      BY <1>1, RecoveredDef
    <2> QED BY <1>1, <2>1 DEF RecoveredFrom, Overlay
  <1>4. \A q \in Pages \ DOMAIN log : home'[q] = home[q]
    BY DEF IInv, TypeOK
  <1>5. Recovered' = Recovered
    BY <1>2, <1>3, <1>4
  <1>6. DOMAIN log \subseteq Pages /\ log[p] \in Slots
    BY <1>1, ImageTypes
  <1> QED BY <1>5, <1>6, DbKept DEF Published

(* Once every page of the area is in place, the descriptor may go. *)
LEMMA CoveredClear ==
  ASSUME IInv, Published, \A p \in DOMAIN log : home[p] = log[p],
         descr' \in {Zero, Torn}, UNCHANGED <<home, slot, log>>
  PROVE  /\ Recovered' = Recovered /\ Recovered = home /\ Db' = Db /\ ~Published'
         /\ \A p \in Pages : home[p] # Torn
  <1>1. log \in Images /\ descr = log /\ log # Zero /\ log # Torn
    BY ImageTypes DEF IInv, TypeOK, RedoInv, Published
  <1>2. Recovered = [q \in Pages |-> IF q \in DOMAIN log THEN log[q] ELSE home[q]]
    BY <1>1, RecoveredDef, RecoveredLogged
  <1>3. Recovered = home
    BY <1>2 DEF IInv, TypeOK
  <1>4. Recovered' = home
    BY RecoveredDef, RecoveredPlain DEF IInv, TypeOK
  <1>5. \A p \in Pages : home[p] # Torn
    BY <1>1, ImageTypes, RedoCommitAssumption DEF IInv, RedoInv
  <1> QED BY <1>3, <1>4, <1>5, DbKept DEF Published

(* A home page is written from the area.                                     *)
LEMMA ApplyStep ==
  ASSUME IInv, Apply PROVE IInv' /\ Simulated
  <1>1. pc = "apply" /\ UNCHANGED <<slot, descr, log, mem, tx, fresh, pc, fatal, up, outcome>>
    BY DEF Apply, ApplyPage
  <1>2. PICK p \in left : home' = [home EXCEPT ![p] = fresh[p]] /\ left' = left \ {p}
    BY DEF Apply, ApplyPage
  <1>3. /\ descr = fresh /\ log = fresh /\ left \subseteq DOMAIN fresh /\ fresh \in Images
        /\ fresh # Zero /\ fresh # Torn
    BY <1>1, ImageTypes DEF IInv, PlaceInv, TxInv
  <1>4. Published /\ p \in DOMAIN log
    BY <1>2, <1>3 DEF Published
  <1>5. /\ Recovered' = Recovered /\ Db' = Db /\ Published'
        /\ DOMAIN log \subseteq Pages /\ log[p] \in Slots
    BY <1>1, <1>2, <1>3, <1>4, CoveredWrite
  <1>6. TypeOK'
    BY <1>1, <1>2, <1>3, <1>5 DEF IInv, TypeOK
  <1>7. RedoInv'
    BY <1>1, <1>2, <1>3, <1>5, RedoCommitAssumption DEF IInv, TypeOK, RedoInv
  <1>8. TxInv'
    BY <1>1 DEF IInv, TxInv
  <1>9. PlaceInv'
    BY <1>1, <1>2, <1>3, <1>5 DEF IInv, TypeOK, PlaceInv
  <1>10. Simulated
    BY <1>1, <1>5, Stutters
  <1> QED BY <1>6, <1>7, <1>8, <1>9, <1>10 DEF IInv

(* The descriptor is cleared once every home page is written.                *)
LEMMA ClearRedoStep ==
  ASSUME IInv, ClearRedo PROVE IInv' /\ Simulated
  <1>1. /\ up /\ pc = "apply" /\ left = {} /\ descr' = Zero
        /\ tx' = NoTx /\ fresh' = <<>> /\ pc' = "idle" /\ outcome' = "ok"
        /\ UNCHANGED <<home, slot, log, left, fatal, up>>
    BY DEF ClearRedo
  <1>2. /\ descr = fresh /\ log = fresh /\ fresh \in Images /\ fresh # Zero /\ fresh # Torn
        /\ \A p \in Pages \ DOMAIN fresh : home[p] = mem[p]
        /\ \A p \in DOMAIN fresh : home[p] = fresh[p]
        /\ tx \in Txs /\ tx # NoTx /\ ~fatal
    BY <1>1, ImageTypes, TxTypes DEF IInv, PlaceInv, TxInv
  <1>3. /\ Recovered' = Recovered /\ Recovered = home /\ Db' = Db /\ ~Published'
        /\ \A p \in Pages : home[p] # Torn
    BY <1>1, <1>2, CoveredClear DEF Published
  <1>4. mem' = home
    BY <1>2 DEF ClearRedo, Overlay, IInv, TypeOK
  <1>5. TypeOK'
    BY <1>1, <1>3, <1>4 DEF IInv, TypeOK
  <1>6. RedoInv'
    BY <1>1, <1>3 DEF IInv, RedoInv
  <1>7. TxInv' /\ PlaceInv'
    BY <1>1, <1>2, <1>3, <1>4 DEF IInv, TxInv, PlaceInv
  <1>8. Atomic!Succeed
    BY <1>1, <1>2, <1>3 DEF Atomic!Succeed, Db
  <1> QED BY <1>5, <1>6, <1>7, <1>8 DEF IInv, Simulated, Atomic!Next

(* Payload of the current epoch is rewritten in place: one page, alone. *)
LEMMA OverwriteStep ==
  ASSUME IInv, Overwrite PROVE IInv' /\ Simulated
  <1>1. /\ up /\ pc = "idle" /\ ~fatal
        /\ UNCHANGED <<home, descr, log, mem, tx, fresh, left, pc>>
    BY DEF Overwrite, txVars
  <1>2. PICK p \in Pages, v \in Payloads \cup {Torn} :
             /\ slot' = [slot EXCEPT ![mem[p]] = v]
             /\ outcome' = IF v = Torn THEN "error" ELSE "ok"
             /\ up' \in IF v = Torn THEN BOOLEAN ELSE {TRUE}
             /\ fatal' = (v = Torn /\ up')
    BY DEF Overwrite
  <1>3. /\ home = mem /\ ~Published /\ tx = NoTx /\ fresh = <<>>
        /\ Recovered = mem /\ Recovered' = Recovered /\ Published' = Published
    <2>1. home = mem /\ ~Published /\ tx = NoTx /\ fresh = <<>>
      BY <1>1 DEF IInv, PlaceInv, TxInv
    <2>2. Recovered = home
      BY <2>1, RecoveredDef, RecoveredPlain DEF Published, IInv, TypeOK
    <2>3. Recovered' = Recovered /\ Published' = Published
      BY <1>1, RecoveredDef DEF Published
    <2> QED BY <2>1, <2>2, <2>3
  <1>4. TypeOK'
    BY <1>1, <1>2 DEF IInv, TypeOK
  <1>5. RedoInv'
    BY <1>1, <1>3 DEF IInv, RedoInv
  <1>6. TxInv' /\ PlaceInv'
    BY <1>1, <1>2, <1>3 DEF IInv, TxInv, PlaceInv
  <1>7. Db' = [Db EXCEPT ![p] = v]
    <2>1. ASSUME NEW q \in Pages
          PROVE  slot'[Recovered'[q]] = IF q = p THEN v ELSE slot[Recovered[q]]
      BY <1>2, <1>3 DEF IInv, TypeOK, RedoInv
    <2> QED BY <2>1 DEF Db
  <1>8. Atomic!Rewrite
    BY <1>1, <1>2, <1>3, <1>7 DEF Atomic!Rewrite, Db
  <1> QED BY <1>4, <1>5, <1>6, <1>8 DEF IInv, Simulated, Atomic!Next

-----------------------------------------------------------------------------
(* The types of what is in the file. *)
FileTypes ==
    /\ home \in [Pages -> Slots \cup {Torn}]
    /\ slot \in [Slots -> Payloads \cup {Torn, Hole}]
    /\ descr \in Images \cup {Zero, Torn}
    /\ log \in Images \cup {<<>>, Torn}

(* A torn write changes nothing that a reader or a later owner sees. *)
LEMMA TearHarmless ==
  ASSUME IInv, TearTarget
  PROVE  FileTypes' /\ RedoInv' /\ Db' = Db
  <1>1. CASE UNCHANGED fileVars
    <2>1. Recovered' = Recovered /\ Db' = Db /\ Published' = Published
      BY <1>1, FileKept
    <2> QED BY <1>1, <2>1 DEF fileVars, IInv, TypeOK, FileTypes, RedoInv
  <1>2. CASE /\ pc = "data" /\ UNCHANGED <<home, descr, log>>
             /\ \E p \in DOMAIN tx : slot' = [slot EXCEPT ![fresh[p]] = Torn]
    <2>1. Recovered' = Recovered /\ Published' = Published
      BY <1>2, RecoveredDef DEF Published
    <2>2. \A p \in Pages : slot'[Recovered[p]] = slot[Recovered[p]]
      BY <1>2, Prepared, RecoveredTypes DEF IInv, TypeOK
    <2>3. slot' \in [Slots -> Payloads \cup {Torn, Hole}]
      BY <1>2 DEF IInv, TypeOK
    <2>4. Db' = Db
      BY <2>1, <2>2, DbKept
    <2> QED BY <1>2, <2>1, <2>3, <2>4 DEF IInv, TypeOK, FileTypes, RedoInv
  <1>3. CASE pc = "log" /\ log' = Torn /\ UNCHANGED <<home, slot, descr>>
    <2>1. descr = Zero /\ Recovered = home /\ ~Published
      BY <1>3, Prepared DEF IInv, PlaceInv
    <2>2. Recovered' = Recovered /\ ~Published'
      BY <1>3, <2>1, RecoveredDef, RecoveredPlain DEF IInv, TypeOK, Published
    <2>3. Db' = Db
      BY <1>3, <2>2, DbKept
    <2> QED BY <1>3, <2>1, <2>2, <2>3 DEF IInv, TypeOK, FileTypes, RedoInv
  <1>4. CASE pc = "commit" /\ descr' = Torn /\ UNCHANGED <<home, slot, log>>
    <2>1. Recovered = home /\ ~Published
      BY <1>4, Prepared
    <2>2. Recovered' = Recovered /\ ~Published'
      BY <1>4, <2>1, RecoveredDef, RecoveredPlain DEF IInv, TypeOK, Published
    <2>3. Db' = Db
      BY <1>4, <2>2, DbKept
    <2> QED BY <1>4, <2>1, <2>2, <2>3 DEF IInv, TypeOK, FileTypes, RedoInv
  <1>5. ASSUME pc \in {"apply", "replay"}
        PROVE  /\ Published /\ left \subseteq DOMAIN log
               /\ \A p \in DOMAIN log \ left : home[p] = log[p]
    BY <1>5, ImageTypes DEF IInv, TxInv, PlaceInv, Published
  <1>6. CASE /\ pc \in {"apply", "replay"} /\ UNCHANGED <<slot, descr, log>>
             /\ \E p \in left : home' = [home EXCEPT ![p] = Torn]
    <2>1. PICK p \in left : home' = [home EXCEPT ![p] = Torn]
      BY <1>6
    <2>2. p \in DOMAIN log /\ Published
      BY <1>5, <1>6, <2>1
    <2>3. /\ Recovered' = Recovered /\ Db' = Db /\ Published'
          /\ DOMAIN log \subseteq Pages
      BY <1>6, <2>1, <2>2, CoveredWrite
    <2>4. FileTypes'
      BY <1>6, <2>1 DEF IInv, TypeOK, FileTypes
    <2> QED BY <1>6, <2>1, <2>2, <2>3, <2>4 DEF IInv, TypeOK, RedoInv
  <1>7. CASE /\ pc \in {"apply", "replay"} /\ left = {}
             /\ descr' = Torn /\ UNCHANGED <<home, slot, log>>
    <2>1. /\ Recovered' = Recovered /\ Db' = Db /\ ~Published'
          /\ \A p \in Pages : home[p] # Torn
      BY <1>5, <1>7, CoveredClear
    <2> QED BY <1>7, <2>1 DEF IInv, TypeOK, FileTypes, RedoInv
  <1> QED BY <1>1, <1>2, <1>3, <1>4, <1>6, <1>7 DEF TearTarget

(* A store that has failed or died keeps only what is in the file. *)
LEMMA StoppedInv ==
  ASSUME IInv, FileTypes', RedoInv',
         tx' = NoTx, fresh' = <<>>, left' = {}, pc' = "idle", mem' = mem,
         up' \in BOOLEAN, fatal' = up', outcome' \in {"none", "ok", "error"}
  PROVE  IInv'
  <1>1. TypeOK'
    BY DEF IInv, TypeOK, FileTypes
  <1>2. TxInv' /\ PlaceInv'
    BY DEF TxInv, PlaceInv
  <1> QED BY <1>1, <1>2 DEF IInv

(* An error from the descriptor write on stops the store. *)
LEMMA CommittedErrorStep ==
  ASSUME IInv, CommittedError PROVE IInv' /\ Simulated
  <1>1. /\ up /\ pc \in {"commit", "apply"} /\ TearTarget /\ fatal' = TRUE
        /\ tx' = NoTx /\ fresh' = <<>> /\ left' = {} /\ pc' = "idle" /\ outcome' = "error"
        /\ UNCHANGED <<mem, up>>
    BY DEF CommittedError
  <1>2. FileTypes' /\ RedoInv' /\ Db' = Db
    BY <1>1, TearHarmless
  <1>3. IInv'
    BY <1>1, <1>2, StoppedInv DEF IInv, TypeOK
  <1>4. tx # NoTx
    BY <1>1, TxTypes DEF IInv, TxInv
  <1>5. Atomic!Fail
    BY <1>1, <1>2, <1>4 DEF Atomic!Fail, Db
  <1> QED BY <1>3, <1>5 DEF Simulated, Atomic!Next

(* The owner dies. *)
LEMMA CrashStep ==
  ASSUME IInv, Crash PROVE IInv' /\ Simulated
  <1>1. /\ up /\ TearTarget /\ up' = FALSE /\ fatal' = FALSE
        /\ outcome' = IF tx # NoTx THEN "error" ELSE outcome
        /\ tx' = NoTx /\ fresh' = <<>> /\ left' = {} /\ pc' = "idle"
        /\ UNCHANGED mem
    BY DEF Crash
  <1>2. FileTypes' /\ RedoInv' /\ Db' = Db
    BY <1>1, TearHarmless
  <1>3. IInv'
    BY <1>1, <1>2, StoppedInv DEF IInv, TypeOK
  <1>4. CASE tx # NoTx
    <2>1. Atomic!Fail
      BY <1>1, <1>2, <1>4 DEF Atomic!Fail, Db
    <2> QED BY <1>3, <2>1 DEF Simulated, Atomic!Next
  <1>5. CASE tx = NoTx
    <2>1. pc # "apply"
      BY <1>5, TxTypes DEF IInv, TxInv
    <2> QED BY <1>1, <1>2, <1>3, <1>5, <2>1, Stutters
  <1> QED BY <1>4, <1>5

(* An error before the descriptor write punches slots of the transaction,   *)
(* which nothing refers to.                                                 *)
LEMMA RollbackStep ==
  ASSUME IInv, Rollback PROVE IInv' /\ Simulated
  <1>1. /\ up /\ pc \in Preparing
        /\ log' \in IF pc = "log" THEN {log, Torn} ELSE {log}
        /\ tx' = NoTx /\ fresh' = <<>> /\ left' = {} /\ pc' = "idle" /\ outcome' = "error"
        /\ UNCHANGED <<home, descr, mem, up>>
    BY DEF Rollback
  <1>2. PICK S \in SUBSET Allocated :
             /\ slot' = Punched(S)
             /\ \E noSpace \in BOOLEAN :
                   fatal' = ~(pc = "reserve" /\ noSpace /\ S = Allocated)
    BY DEF Rollback
  <1>3. /\ up /\ ~fatal /\ Recovered = mem /\ home = mem /\ ~Published
        /\ descr \in {Zero, Torn}
        /\ tx \in Txs /\ fresh \in Images
        /\ \A p \in DOMAIN fresh, q \in Pages : fresh[p] # Recovered[q]
    BY <1>1, Prepared
  <1>4. Recovered' = Recovered /\ ~Published'
    BY <1>1, <1>3, RecoveredDef, RecoveredPlain DEF Published, IInv, TypeOK
  <1>5. \A p \in Pages : Recovered[p] \in Slots /\ Recovered[p] \notin S
    BY <1>2, <1>3, RecoveredTypes DEF Allocated, IInv
  <1>6. Db' = Db
    BY <1>2, <1>4, <1>5, DbKept DEF Punched
  <1>7. slot' \in [Slots -> Payloads \cup {Torn, Hole}] /\ fatal' \in BOOLEAN
    BY <1>2 DEF Punched, IInv, TypeOK
  <1>8. TypeOK'
    BY <1>1, <1>7 DEF IInv, TypeOK
  <1>9. RedoInv'
    BY <1>1, <1>3, <1>4 DEF IInv, RedoInv
  <1>10. TxInv' /\ PlaceInv'
    BY <1>1, <1>3, <1>4 DEF TxInv, PlaceInv
  <1>11. Atomic!Fail
    BY <1>1, <1>3, <1>6, TxTypes DEF Atomic!Fail, Db
  <1> QED BY <1>8, <1>9, <1>10, <1>11 DEF IInv, Simulated, Atomic!Next

-----------------------------------------------------------------------------
(* openStore reads the area of a published transaction. *)
LEMMA OpenStep ==
  ASSUME IInv, Open PROVE IInv' /\ Simulated
  <1>1. /\ ~up /\ pc = "idle" /\ up' = TRUE
        /\ pc' = IF Published THEN "replay" ELSE "load"
        /\ left' = DOMAIN readRedo
        /\ UNCHANGED <<home, slot, descr, log, mem, tx, fresh, fatal, outcome>>
    BY DEF Open, fileVars
  <1>2. Recovered' = Recovered /\ Db' = Db /\ Published' = Published
    BY FileKept DEF Open
  <1>3. IF Published THEN log \in Images /\ left' = DOMAIN log ELSE left' = {}
    BY <1>1, ImageTypes, EmptyDomain DEF readRedo, RedoValid, IInv, TypeOK, RedoInv, Published
  <1>4. left' \subseteq Pages
    BY <1>3, ImageTypes
  <1>5. fatal' = FALSE
    BY <1>1 DEF Open, IInv, TxInv
  <1>6. TypeOK'
    BY <1>1, <1>4 DEF IInv, TypeOK
  <1>7. RedoInv'
    BY <1>1, <1>2 DEF IInv, RedoInv
  <1>8. TxInv' /\ PlaceInv'
    BY <1>1, <1>2, <1>3, <1>5 DEF IInv, TxInv, PlaceInv
  <1>9. Simulated
    BY <1>1, <1>2, Stutters
  <1> QED BY <1>6, <1>7, <1>8, <1>9 DEF IInv

(* openStore writes a home page from the area.                               *)
LEMMA ReplayStep ==
  ASSUME IInv, Replay PROVE IInv' /\ Simulated
  <1>1. pc = "replay" /\ UNCHANGED <<slot, descr, log, mem, tx, fresh, pc, fatal, up, outcome>>
    BY DEF Replay, ApplyPage
  <1>2. PICK p \in left : home' = [home EXCEPT ![p] = log[p]] /\ left' = left \ {p}
    BY DEF Replay, ApplyPage
  <1>3. Published /\ left \subseteq DOMAIN log
    BY <1>1 DEF IInv, PlaceInv
  <1>4. /\ Recovered' = Recovered /\ Db' = Db /\ Published'
        /\ DOMAIN log \subseteq Pages /\ log[p] \in Slots
    BY <1>1, <1>2, <1>3, CoveredWrite
  <1>5. TypeOK'
    BY <1>1, <1>2, <1>4 DEF IInv, TypeOK
  <1>6. RedoInv'
    BY <1>1, <1>2, <1>3, <1>4, RedoCommitAssumption DEF IInv, TypeOK, RedoInv
  <1>7. TxInv' /\ PlaceInv'
    BY <1>1, <1>2, <1>3, <1>4 DEF IInv, TypeOK, TxInv, PlaceInv
  <1>8. Simulated
    BY <1>1, <1>4, Stutters
  <1> QED BY <1>5, <1>6, <1>7, <1>8 DEF IInv

(* openStore clears the descriptor once every page is replayed.              *)
LEMMA ClearReplayedStep ==
  ASSUME IInv, ClearReplayed PROVE IInv' /\ Simulated
  <1>1. /\ pc = "replay" /\ left = {} /\ descr' = Zero /\ pc' = "load"
        /\ UNCHANGED <<home, slot, log, mem, tx, fresh, left, fatal, up, outcome>>
    BY DEF ClearReplayed, txVars
  <1>2. Published /\ \A p \in DOMAIN log : home[p] = log[p]
    BY <1>1 DEF IInv, PlaceInv
  <1>3. /\ Recovered' = Recovered /\ Recovered = home /\ Db' = Db /\ ~Published'
        /\ \A p \in Pages : home[p] # Torn
    BY <1>1, <1>2, CoveredClear
  <1>4. TypeOK'
    BY <1>1 DEF IInv, TypeOK
  <1>5. RedoInv' /\ TxInv' /\ PlaceInv'
    BY <1>1, <1>3 DEF IInv, RedoInv, TxInv, PlaceInv
  <1>6. Simulated
    BY <1>1, <1>3, Stutters
  <1> QED BY <1>4, <1>5, <1>6 DEF IInv

(* openStore fills its cache from the home pages.                            *)
LEMMA LoadStep ==
  ASSUME IInv, Load PROVE IInv' /\ Simulated
  <1>1. /\ up /\ pc = "load" /\ mem' = home /\ pc' = "idle"
        /\ UNCHANGED <<home, slot, descr, log, tx, fresh, left, fatal, up, outcome>>
    BY DEF Load, fileVars, txVars
  <1>2. Recovered' = Recovered /\ Db' = Db /\ Published' = Published
    BY FileKept DEF Load
  <1>3. ~Published /\ \A p \in Pages : home[p] # Torn
    BY <1>1 DEF IInv, PlaceInv, RedoInv
  <1>4. TypeOK'
    BY <1>1, <1>3 DEF IInv, TypeOK
  <1>5. RedoInv' /\ TxInv' /\ PlaceInv'
    BY <1>1, <1>2, <1>3 DEF IInv, RedoInv, TxInv, PlaceInv
  <1>6. Simulated
    BY <1>1, <1>2, Stutters
  <1> QED BY <1>4, <1>5, <1>6 DEF IInv

-----------------------------------------------------------------------------
(* A new store satisfies the invariant and is an initial state of the       *)
(* abstract one.                                                            *)
LEMMA RedoInit ==
  ASSUME Init PROVE IInv /\ Atomic!Init
  <1>1. /\ home = mem /\ mem \in [Pages -> Slots] /\ descr = Zero /\ log = <<>>
        /\ tx = NoTx /\ fresh = <<>> /\ left = {} /\ pc = "idle"
        /\ fatal = FALSE /\ up = TRUE /\ outcome = "none"
        /\ slot \in [Slots -> Payloads \cup {Hole}]
        /\ \A p, q \in Pages : mem[p] = mem[q] => p = q
    BY DEF Init
  <1>2. TypeOK
    BY <1>1 DEF TypeOK
  <1>3. ~Published /\ Recovered = mem
    BY <1>1, <1>2, RecoveredDef, RecoveredPlain DEF Published, TypeOK
  <1>4. RedoInv
    BY <1>1, <1>3, RedoCommitAssumption DEF RedoInv
  <1>5. TxInv /\ PlaceInv
    BY <1>1, <1>3 DEF TxInv, PlaceInv
  <1>6. Db \in [Pages -> Payloads]
    <2>1. ASSUME NEW p \in Pages PROVE slot[mem[p]] \in Payloads
      BY <1>1 DEF Init
    <2> QED BY <1>3, <2>1 DEF Db
  <1>7. Atomic!Init
    BY <1>1, <1>6 DEF Atomic!Init, Db
  <1> QED BY <1>2, <1>4, <1>5, <1>7 DEF IInv

(* Every step preserves the invariant and is a step, or a stutter, of the   *)
(* abstract store.                                                          *)
LEMMA RedoNext ==
  ASSUME IInv, [Next]_vars PROVE IInv' /\ Simulated
  <1>1. CASE UNCHANGED vars
    <2>1. UNCHANGED <<home, slot, descr, log, mem, tx, fresh, left, pc, fatal, up, outcome>>
      BY <1>1 DEF vars, fileVars, txVars
    <2>2. Recovered' = Recovered /\ Db' = Db /\ Published' = Published
      BY <2>1, FileKept DEF fileVars
    <2>3. IInv'
      BY <2>1, <2>2 DEF IInv, TypeOK, RedoInv, TxInv, PlaceInv
    <2> QED BY <2>1, <2>2, <2>3, Stutters
  <1> QED BY <1>1, BeginStep, ReserveStep, WriteFreshStep, ResetRedoStep, WriteLogStep,
             WriteCommitStep, ApplyStep, ClearRedoStep, OverwriteStep, RollbackStep,
             CommittedErrorStep, CrashStep, OpenStep, ReplayStep, ClearReplayedStep, LoadStep
          DEF Next

(* However commit was interrupted, the file can be opened, and a store that *)
(* takes requests works from what the file would be recovered to            *)
(* (transaction.commit, mutateOnce and openStore).                          *)
THEOREM RecoveryAlwaysExact == Spec => []RecoveryIsExact
  <1>1. Init => IInv
    BY RedoInit
  <1>2. IInv /\ [Next]_vars => IInv'
    BY RedoNext
  <1>3. IInv => RecoveryIsExact
    <2> SUFFICES ASSUME IInv PROVE RecoveryIsExact
      OBVIOUS
    <2>1. up /\ ~fatal /\ pc = "idle" => mem = Recovered
      BY RecoveredDef, RecoveredPlain DEF IInv, TypeOK, PlaceInv, Published
    <2> QED BY <2>1 DEF IInv, RedoInv, RecoveryIsExact
  <1> QED BY <1>1, <1>2, <1>3, PTL DEF Spec

(* The commit through the redo area implements an atomic commit: the whole  *)
(* transaction becomes visible in one step, or never, under every failed,   *)
(* torn or interrupted write.                                               *)
THEOREM CommitRefinesAtomic == Spec => CommitIsAtomic
  <1>1. Init => IInv /\ Atomic!Init
    BY RedoInit
  <1>2. IInv /\ [Next]_vars => IInv' /\ [Atomic!Next]_(Atomic!vars)
    BY RedoNext DEF Simulated
  <1> QED BY <1>1, <1>2, PTL DEF Spec, CommitIsAtomic, Atomic!Spec
=============================================================================
