---------------------------- MODULE ExportProofs ----------------------------
(***************************************************************************)
(* What exports promise, for any number of requests, clients, workers,     *)
(* rows and faults, although marking, completing and failing an export do  *)
(* not look at its status.  Claims, retries and replays do, so that only   *)
(* one who was building an export when it expired can write it again.      *)
(***************************************************************************)
EXTENDS Exports, SequenceTheorems, TLAPS

(* What is true of every row on its own. *)
Sound(row) ==
  /\ row.status \in {"COMPLETED", "EXPIRED"} => row.file
  /\ row.status = "FAILED" => ~row.file

(* Who has not created its row yet builds none. *)
CreatorsBuildNothing ==
  \A p \in Processes : process[p].pc = "creating" => process[p].batch = <<>>

(* The inductive invariant. *)
ExportInv ==
  /\ TypeOK
  /\ CreatorsBuildNothing
  /\ \A x \in Rows : Sound(exports[x])
  /\ OneExportPerKey
  /\ ProcessingIsHeld

-----------------------------------------------------------------------------
(* Rows and passes. *)

LEMMA RowsAreTyped ==
  ASSUME TypeOK
  PROVE  \A x \in Rows : /\ exports[x] \in ExportRow /\ x \in DOMAIN exports
                         /\ exports[x].request \in Requests
                         /\ exports[x].key \in Keys \cup {None}
                         /\ exports[x].file \in BOOLEAN
                         /\ exports[x].status \in Statuses
<1> SUFFICES ASSUME NEW x \in Rows
             PROVE  /\ exports[x] \in ExportRow /\ x \in DOMAIN exports
                    /\ exports[x].request \in Requests
                    /\ exports[x].key \in Keys \cup {None}
                    /\ exports[x].file \in BOOLEAN
                    /\ exports[x].status \in Statuses
  OBVIOUS
<1>1. exports[x] \in ExportRow /\ x \in DOMAIN exports
  BY ElementOfSeq, LenProperties DEF TypeOK, Rows
<1> QED BY <1>1 DEF ExportRow

LEMMA PassesAreTyped ==
  ASSUME TypeOK
  PROVE  /\ Idle \in PassRow
         /\ \A p \in Processes :
              /\ process[p] \in PassRow /\ process[p].batch \in Seq(Rows)
              /\ process[p].found \subseteq Rows
<1>1. << >> \in Seq(Rows)
  BY EmptySeq
<1>2. Idle \in PassRow
  BY <1>1 DEF Idle, PassRow
<1>3. \A p \in Processes : process[p] \in PassRow
  BY DEF TypeOK
<1> QED BY <1>2, <1>3 DEF PassRow

LEMMA RowChanges ==
  ASSUME NEW rows \in Seq(ExportRow), NEW x \in DOMAIN rows, NEW row \in ExportRow
  PROVE  /\ [rows EXCEPT ![x] = row] \in Seq(ExportRow)
         /\ DOMAIN [rows EXCEPT ![x] = row] = DOMAIN rows
         /\ [rows EXCEPT ![x] = row][x] = row
         /\ \A y \in DOMAIN rows \ {x} : [rows EXCEPT ![x] = row][y] = rows[y]
BY ExceptSeq, LenProperties

LEMMA RowIsAdded ==
  ASSUME NEW rows \in Seq(ExportRow), NEW row \in ExportRow
  PROVE  /\ Append(rows, row) \in Seq(ExportRow)
         /\ Len(rows) + 1 \notin DOMAIN rows
         /\ Append(rows, row)[Len(rows) + 1] = row
         /\ DOMAIN Append(rows, row) = DOMAIN rows \cup {Len(rows) + 1}
         /\ \A y \in DOMAIN rows : Append(rows, row)[y] = rows[y]
BY AppendProperties, LenProperties

(* What a row becomes that is written. *)
LEMMA WrittenRow ==
  ASSUME TypeOK, NEW x \in Rows, NEW status \in Statuses, NEW file \in BOOLEAN
  PROVE  /\ Written(x, status, file) \in Seq(ExportRow)
         /\ DOMAIN Written(x, status, file) = Rows
         /\ Written(x, status, file)[x].status = status
         /\ Written(x, status, file)[x].file = file
         /\ Written(x, status, file)[x].key = exports[x].key
         /\ Written(x, status, file)[x].request = exports[x].request
         /\ \A y \in Rows \ {x} : Written(x, status, file)[y] = exports[y]
<1> DEFINE row == [exports[x] EXCEPT !.status = status, !.file = file, !.stale = FALSE]
<1>1. exports \in Seq(ExportRow) /\ x \in DOMAIN exports /\ exports[x] \in ExportRow
  BY RowsAreTyped DEF TypeOK
<1>2. /\ row \in ExportRow /\ row.status = status /\ row.file = file
      /\ row.key = exports[x].key /\ row.request = exports[x].request
  BY <1>1 DEF ExportRow
<1>3. Written(x, status, file) = [exports EXCEPT ![x] = row]
  BY DEF Written
<1> HIDE DEF row
<1> QED BY <1>1, <1>2, <1>3, RowChanges DEF Rows

-----------------------------------------------------------------------------
(* A step of the process p, which makes it "pass", over rows that stay.     *)
(* It leaves no row in PROCESSING which it does not hold.                   *)
LEMMA ProcessStep ==
  ASSUME ExportInv, NEW p \in Processes, NEW pass \in PassRow,
         process' = [process EXCEPT ![p] = pass],
         pass.pc = "creating" => pass.request \in Requests /\ pass.batch = <<>>,
         pass.pc \in {"marking", "building", "failing", "rescuing"} => pass.batch # <<>>,
         exports' \in Seq(ExportRow), Rows' = Rows,
         faults' \in 0 .. MaxFaults, faults <= faults',
         \A x \in Rows :
           /\ exports'[x].key = exports[x].key
           /\ Sound(exports'[x])
           /\ exports'[x].status = "PROCESSING" =>
                \/ Holds(pass, x)
                \/ faults' > 0
                \/ exports[x].status = "PROCESSING" /\ ~Holds(process[p], x)
  PROVE  ExportInv'
<1>1. TypeOK
  BY DEF ExportInv
<1>2. process'[p] = pass /\ \A r \in Processes \ {p} : process'[r] = process[r]
  BY <1>1 DEF TypeOK
<1>3. TypeOK'
  <2>1. process' \in [Processes -> PassRow']
    BY <1>1 DEF TypeOK, PassRow
  <2>2. \A r \in Processes :
       /\ process'[r].pc = "creating" => process'[r].request \in Requests
       /\ process'[r].pc \in {"marking", "building", "failing", "rescuing"}
            => process'[r].batch # <<>>
    BY <1>1, <1>2 DEF TypeOK
  <2> QED BY <2>1, <2>2 DEF TypeOK
<1>4. (\A x \in Rows : Sound(exports[x]))' /\ CreatorsBuildNothing'
  BY <1>2 DEF Sound, ExportInv, CreatorsBuildNothing
<1>5. OneExportPerKey'
  BY DEF ExportInv, OneExportPerKey
<1>7. ProcessingIsHeld'
  <2> SUFFICES ASSUME NEW x \in Rows, exports'[x].status = "PROCESSING", ~(faults' > 0)
               PROVE  \E r \in Processes : Holds(process'[r], x)
    BY DEF ProcessingIsHeld, Held
  <2>1. CASE Holds(pass, x)
    BY <1>2, <2>1
  <2>2. CASE exports[x].status = "PROCESSING" /\ ~Holds(process[p], x)
    <3>1. ~(faults > 0)
      BY <1>1, BoundsAreNumbers DEF TypeOK
    <3>2. PICK r \in Processes : Holds(process[r], x)
      BY <2>2, <3>1 DEF ExportInv, ProcessingIsHeld, Held
    <3> QED BY <1>2, <2>2, <3>2
  <2> QED BY <2>1, <2>2
<1> QED BY <1>3, <1>4, <1>5, <1>7 DEF ExportInv


(* What a pass holds. *)
LEMMA IdleHoldsNothing ==
  /\ Idle.pc = "idle" /\ Idle.batch = <<>>
  /\ \A pass, x : pass.batch = <<>> => ~Holds(pass, x)
<1>1. Idle.pc = "idle" /\ Idle.batch = <<>>
  BY DEF Idle
<1>2. DOMAIN <<>> = {}
  OBVIOUS
<1> QED BY <1>1, <1>2 DEF Holds

LEMMA CurrentIsHeld ==
  ASSUME TypeOK, NEW p \in Processes, process[p].batch # <<>>
  PROVE  Current(p) \in Rows /\ Holds(process[p], Current(p))
<1>1. process[p].batch \in Seq(Rows)
  BY PassesAreTyped
<1>2. Current(p) \in Rows
  BY <1>1, HeadTailProperties DEF Current
<1>3. 1 \in DOMAIN process[p].batch /\ process[p].batch[1] = Current(p)
  BY <1>1, LenProperties, EmptySeq DEF Current
<1> QED BY <1>2, <1>3 DEF Holds

LEMMA BuildingIsTyped ==
  ASSUME TypeOK, NEW x \in Rows
  PROVE  /\ Building(x) \in PassRow /\ Building(x).pc = "marking" /\ Building(x).batch # <<>>
         /\ Holds(Building(x), x)
         /\ \A y : Holds(Building(x), y) => y = x
<1>1. Building(x).pc = "marking" /\ Building(x).batch = <<x>>
  BY DEF Building, Idle
<1>2. <<x>> \in Seq(Rows)
  OBVIOUS
<1>3. Building(x) \in PassRow
  BY <1>2, PassesAreTyped DEF Building, PassRow
<1>4. DOMAIN <<x>> = {1} /\ <<x>>[1] = x /\ <<x>> # <<>>
  OBVIOUS
<1> QED BY <1>1, <1>3, <1>4 DEF Holds

(* What is left of a batch after its head. *)
Rest(q) ==
  IF Len(q.batch) = 1 THEN Idle ELSE [q EXCEPT !.pc = "marking", !.batch = Tail(q.batch)]

LEMMA RestIsTyped ==
  ASSUME TypeOK, NEW p \in Processes, process[p].batch # <<>>
  PROVE  /\ Rest(process[p]) \in PassRow
         /\ Rest(process[p]).pc = "idle" \/
              (Rest(process[p]).pc = "marking" /\ Rest(process[p]).batch # <<>>)
         /\ \A x : Holds(Rest(process[p]), x) => Holds(process[p], x)
         /\ \A x : Holds(process[p], x) => x = Current(p) \/ Holds(Rest(process[p]), x)
<1> DEFINE b == process[p].batch
<1>1. b \in Seq(Rows) /\ process[p] \in PassRow /\ Idle \in PassRow
  BY PassesAreTyped
<1>2. DOMAIN b = 1 .. Len(b) /\ Len(b) \in Nat /\ b[1] = Current(p)
  BY <1>1, LenProperties, EmptySeq DEF Current
<1>3. CASE Len(b) = 1
  <2>1. Rest(process[p]) = Idle
    BY <1>3 DEF Rest
  <2>2. \A x : Holds(process[p], x) => x = Current(p)
    BY <1>2, <1>3 DEF Holds
  <2> QED BY <1>1, <2>1, <2>2, IdleHoldsNothing
<1>4. CASE Len(b) # 1
  <2> DEFINE t == Tail(b)
             rest == [process[p] EXCEPT !.pc = "marking", !.batch = t]
  <2>1. /\ t \in Seq(Rows) /\ Len(t) = Len(b) - 1 /\ Len(t) # 0
        /\ \A i \in 1 .. Len(t) : t[i] = b[i + 1]
        /\ DOMAIN t = 1 .. Len(t)
    BY <1>1, <1>2, <1>4, HeadTailProperties, LenProperties
  <2>2. t # <<>>
    BY <2>1, EmptySeq
  <2>3. Rest(process[p]) = rest
    BY <1>4 DEF Rest
  <2> HIDE DEF t
  <2>4. rest \in PassRow /\ rest.pc = "marking" /\ rest.batch = t
    BY <1>1, <2>1 DEF PassRow
  <2> HIDE DEF rest
  <2>5. \A i \in DOMAIN t : i + 1 \in DOMAIN b /\ t[i] = b[i + 1]
    BY <1>2, <2>1
  <2>6. \A i \in DOMAIN b : i = 1 \/ (i - 1 \in DOMAIN t /\ t[i - 1] = b[i])
    <3> SUFFICES ASSUME NEW i \in 1 .. Len(b), i # 1
                 PROVE  i - 1 \in 1 .. Len(t) /\ t[i - 1] = b[i]
      BY <1>2, <2>1
    <3>1. i - 1 \in 1 .. Len(t) /\ (i - 1) + 1 = i
      BY <1>2, <2>1
    <3> QED BY <2>1, <3>1
  <2>7. \A x : Holds(rest, x) => Holds(process[p], x)
    BY <2>4, <2>5 DEF Holds
  <2>8. \A x : Holds(process[p], x) => x = Current(p) \/ Holds(rest, x)
    BY <1>2, <2>4, <2>6 DEF Holds
  <2> QED BY <2>2, <2>3, <2>4, <2>7, <2>8
<1> QED BY <1>3, <1>4

(* A step that leaves the rows alone. *)
LEMMA QuietStep ==
  ASSUME ExportInv, NEW p \in Processes, NEW pass \in PassRow,
         process' = [process EXCEPT ![p] = pass],
         pass.pc = "creating" => pass.request \in Requests /\ pass.batch = <<>>,
         pass.pc \in {"marking", "building", "failing", "rescuing"} => pass.batch # <<>>,
         UNCHANGED exports, faults' \in 0 .. MaxFaults, faults <= faults',
         \/ faults' > 0
         \/ \A x \in Rows : Holds(process[p], x) => Holds(pass, x)
  PROVE  ExportInv'
<1>1. exports' \in Seq(ExportRow) /\ Rows' = Rows
  BY DEF ExportInv, TypeOK, Rows
<1>2. \A x \in Rows : Sound(exports'[x]) /\ exports'[x] = exports[x]
  BY DEF ExportInv
<1> QED BY <1>1, <1>2, ProcessStep

(* A step that writes the row of x. *)
LEMMA WriteStep ==
  ASSUME ExportInv, NEW p \in Processes, NEW pass \in PassRow,
         process' = [process EXCEPT ![p] = pass],
         pass.pc # "creating",
         pass.pc \in {"marking", "building", "failing", "rescuing"} => pass.batch # <<>>,
         NEW x \in Rows, NEW status \in Statuses \ {"EXPIRED"}, NEW file \in BOOLEAN,
         exports' = Written(x, status, file),
         status = "COMPLETED" => file, status = "FAILED" => ~file,
         faults' \in 0 .. MaxFaults, faults <= faults',
         faults' > 0 \/
           /\ \A y \in Rows : Holds(process[p], y) => Holds(pass, y) \/ y = x
           /\ status = "PROCESSING" => Holds(pass, x)
  PROVE  ExportInv'
<1>1. /\ exports' \in Seq(ExportRow) /\ Rows' = Rows
      /\ exports'[x].status = status /\ exports'[x].file = file
      /\ exports'[x].key = exports[x].key
      /\ \A y \in Rows \ {x} : exports'[y] = exports[y]
  BY WrittenRow DEF ExportInv, Rows
<1>2. Sound(exports'[x])
  BY <1>1 DEF Sound
<1>3. \A y \in Rows :
           /\ exports'[y].key = exports[y].key
           /\ Sound(exports'[y])
           /\ exports'[y].status = "PROCESSING" =>
                \/ Holds(pass, y)
                \/ faults' > 0
                \/ exports[y].status = "PROCESSING" /\ ~Holds(process[p], y)
  <2> SUFFICES ASSUME NEW y \in Rows
               PROVE  /\ exports'[y].key = exports[y].key
                      /\ Sound(exports'[y])
                      /\ exports'[y].status = "PROCESSING" =>
                           \/ Holds(pass, y)
                           \/ faults' > 0
                           \/ exports[y].status = "PROCESSING" /\ ~Holds(process[p], y)
    OBVIOUS
  <2>1. CASE y = x
    BY <1>1, <1>2, <2>1
  <2>2. CASE y # x
    <3>1. exports'[y] = exports[y] /\ Sound(exports[y])
      BY <1>1, <2>2 DEF ExportInv
    <3> QED BY <2>2, <3>1
  <2> QED BY <2>1, <2>2
<1> QED BY <1>1, <1>3, ProcessStep


-----------------------------------------------------------------------------
(* The steps of requests. *)

LEMMA AskStep ==
  ASSUME ExportInv, NEW a \in Clients, Ask(a)
  PROVE  ExportInv'
<1>1. /\ TypeOK /\ a \in Processes /\ process[a] = Idle /\ UNCHANGED faults
      /\ faults \in 0 .. MaxFaults /\ faults <= faults /\ Idle \in PassRow
      /\ Idle.pc = "idle" /\ \A x : ~Holds(Idle, x)
  <2>1. TypeOK /\ a \in Processes /\ process[a] = Idle /\ UNCHANGED faults
    BY DEF ExportInv, Ask, FindReplay, RequestWithoutKey, RetryExport, Processes
  <2>2. faults \in 0 .. MaxFaults /\ faults <= faults
    BY <2>1, BoundsAreNumbers DEF TypeOK
  <2> QED BY <2>1, <2>2, IdleHoldsNothing, PassesAreTyped
<1>2. ASSUME NEW r \in Requests, NEW k \in Keys \cup {None}
      PROVE  LET new == [Idle EXCEPT !.pc = "creating", !.key = k, !.request = r] IN
             new \in PassRow /\ new.pc = "creating" /\ new.request \in Requests
             /\ new.batch = <<>> /\ \A x : ~Holds(new, x)
  <2> DEFINE new == [Idle EXCEPT !.pc = "creating", !.key = k, !.request = r]
  <2>1. new.pc = "creating" /\ new.request = r /\ new.batch = <<>>
    BY DEF Idle
  <2>2. new \in PassRow
    BY <1>1 DEF PassRow
  <2> HIDE DEF new
  <2>3. new \in PassRow /\ new.pc = "creating" /\ new.request \in Requests
        /\ new.batch = <<>> /\ \A x : ~Holds(new, x)
    BY <2>1, <2>2, IdleHoldsNothing
  <2> QED BY <2>3 DEF new
<1>3. ASSUME NEW r \in Requests, RequestWithoutKey(a, r) PROVE ExportInv'
  <2> DEFINE new == [Idle EXCEPT !.pc = "creating", !.request = r]
  <2>1. process' = [process EXCEPT ![a] = new] /\ UNCHANGED exports
    BY <1>3 DEF RequestWithoutKey
  <2>2. new.pc = "creating" /\ new.request = r /\ new.batch = <<>>
    BY DEF Idle
  <2>3. new \in PassRow
    BY <1>1 DEF PassRow
  <2> HIDE DEF new
  <2>4. \A x : ~Holds(new, x)
    BY <2>2, IdleHoldsNothing
  <2> QED BY <1>1, <2>1, <2>2, <2>3, <2>4, QuietStep
<1>4. ASSUME NEW r \in Requests, NEW k \in Keys, FindReplay(a, r, k) PROVE ExportInv'
  <2>1. CASE RowsOf(k) = {}
    <3> DEFINE new == [Idle EXCEPT !.pc = "creating", !.key = k, !.request = r]
    <3>1. process' = [process EXCEPT ![a] = new] /\ UNCHANGED exports
      BY <1>4, <2>1 DEF FindReplay
    <3>2. new \in PassRow /\ new.pc = "creating" /\ new.request \in Requests
          /\ new.batch = <<>> /\ \A x : ~Holds(new, x)
      BY <1>2
    <3> HIDE DEF new
    <3> QED BY <1>1, <3>1, <3>2, QuietStep
  <2>2. CASE RowsOf(k) # {}
    <3> PICK x \in Rows : x = CHOOSE y \in RowsOf(k) : TRUE
      BY <2>2 DEF RowsOf
    <3>1. CASE exports[x].status = "QUEUED" /\ process' = [process EXCEPT ![a] = Building(x)]
      <4>1. UNCHANGED exports
        BY <1>4 DEF FindReplay
      <4> QED BY <1>1, <3>1, <4>1, BuildingIsTyped, QuietStep
    <3>2. CASE process' = [process EXCEPT ![a] = Idle]
      <4>1. UNCHANGED exports
        BY <1>4 DEF FindReplay
      <4> QED BY <1>1, <3>2, <4>1, QuietStep
    <3> QED BY <1>4, <2>2, <3>1, <3>2 DEF FindReplay
  <2> QED BY <2>1, <2>2
<1>5. ASSUME NEW x \in Rows, RetryExport(a, x) PROVE ExportInv'
  <2>1. exports' = Written(x, "QUEUED", FALSE) /\ "QUEUED" \in Statuses \ {"EXPIRED"}
    BY <1>5 DEF RetryExport, Statuses
  <2>2. CASE process' = [process EXCEPT ![a] = Building(x)]
    <3> DEFINE pass == Building(x)
    <3>1. /\ pass \in PassRow /\ pass.pc = "marking" /\ pass.batch # <<>>
          /\ \A y \in Rows : Holds(pass, y) => y = x
      BY <1>1, BuildingIsTyped
    <3> HIDE DEF pass
    <3>2. process' = [process EXCEPT ![a] = pass]
      BY <2>2 DEF pass
    <3> QED BY <1>1, <2>1, <3>1, <3>2, WriteStep
  <2>3. CASE process' = [process EXCEPT ![a] = Idle]
    <3>1. /\ Idle.pc # "creating" /\ Idle.pc \notin {"marking", "building", "failing", "rescuing"}
          /\ \A y \in Rows : ~Holds(process[a], y)
          /\ "QUEUED" # "COMPLETED" /\ "QUEUED" # "FAILED" /\ "QUEUED" # "PROCESSING"
      BY <1>1
    <3>2. /\ a \in Processes /\ Idle \in PassRow /\ x \in Rows
          /\ faults' \in 0 .. MaxFaults /\ faults <= faults'
      BY <1>1
    <3> QED BY ONLY ExportInv, <2>1, <2>3, <3>1, <3>2, FALSE \in BOOLEAN, WriteStep
  <2> QED BY <1>5, <2>2, <2>3 DEF RetryExport
<1> QED BY <1>3, <1>4, <1>5 DEF Ask


(* A new row, of which nobody knows but its client. *)
LEMMA CreateStep ==
  ASSUME ExportInv, NEW a \in Clients, Create(a)
  PROVE  ExportInv'
<1>1. /\ TypeOK /\ a \in Processes /\ UNCHANGED faults /\ faults \in 0 .. MaxFaults
      /\ faults <= faults /\ Idle \in PassRow /\ Idle.pc = "idle" /\ \A x : ~Holds(Idle, x)
      /\ process[a] \in PassRow /\ process[a].request \in Requests
      /\ \A x : ~Holds(process[a], x)
  <2>1. TypeOK /\ a \in Processes /\ UNCHANGED faults /\ process[a].pc = "creating"
    BY DEF ExportInv, Create, Processes
  <2>2. /\ faults \in 0 .. MaxFaults /\ faults <= faults /\ process[a].request \in Requests
        /\ process[a].batch = <<>>
    BY <2>1, BoundsAreNumbers DEF TypeOK, ExportInv, CreatorsBuildNothing
  <2> QED BY <2>1, <2>2, IdleHoldsNothing, PassesAreTyped
<1> DEFINE q == process[a]
<1>2. CASE KeyIsTaken(q.key)
  <2>1. UNCHANGED exports /\ process' = [process EXCEPT ![a] = Idle]
    BY <1>2 DEF Create
  <2> QED BY <1>1, <2>1, QuietStep
<1>3. CASE ~KeyIsTaken(q.key)
  <2> PICK x : x = Len(exports) + 1
    OBVIOUS
  <2> DEFINE row == Queued(q.request, q.key)
  <2>1. exports' = Append(exports, row)
    BY <1>3 DEF Create
  <2>2. /\ row \in ExportRow /\ row.status = "QUEUED" /\ row.key = q.key /\ row.file = FALSE
    BY <1>1 DEF Queued, ExportRow, PassRow, Statuses
  <2> HIDE DEF row
  <2>3. /\ exports' \in Seq(ExportRow) /\ x \notin Rows /\ exports'[x] = row
        /\ Rows' = Rows \cup {x} /\ \A y \in Rows : exports'[y] = exports[y]
    BY <1>1, <2>1, <2>2, RowIsAdded DEF TypeOK, Rows
  <2>4. \A p \in Processes : \A y : Holds(process[p], y) => y \in Rows
    <3> SUFFICES ASSUME NEW p \in Processes PROVE \A y : Holds(process[p], y) => y \in Rows
      OBVIOUS
    <3>1. process[p].batch \in Seq(Rows)
      BY <1>1, PassesAreTyped
    <3> QED BY <3>1, ElementOfSeq, LenProperties DEF Holds
  <2> DEFINE pass == IF Format[q.request] = "CSV" THEN Building(x) ELSE Idle
  <2>5. process' = [process EXCEPT ![a] = pass]
    BY <1>3 DEF Create
  <2>6. /\ pass \in PassRow' /\ pass.pc \in {"idle", "marking"}
        /\ pass.pc = "marking" => pass.batch # <<>>
        /\ \A y \in Rows : ~Holds(pass, y)
    <3>1. <<x>> \in Seq(Rows') /\ <<x>> # <<>> /\ << >> \in Seq(Rows')
      BY <2>3, EmptySeq
    <3>2. Building(x).pc = "marking" /\ Building(x).batch = <<x>>
      BY DEF Building, Idle
    <3>3. Building(x) \in PassRow' /\ Idle \in PassRow'
      BY <3>1 DEF Building, Idle, PassRow
    <3>4. \A y : Holds(Building(x), y) => y = x
      BY <3>2 DEF Holds
    <3> QED BY <1>1, <2>3, <3>1, <3>2, <3>3, <3>4
  <2> HIDE DEF pass
  <2>7. process'[a] = pass /\ \A p \in Processes \ {a} : process'[p] = process[p]
    BY <1>1, <2>5 DEF TypeOK
  <2>8. TypeOK'
    <3>1. \A p \in Processes : process[p] \in PassRow'
      <4> SUFFICES ASSUME NEW p \in Processes PROVE process[p] \in PassRow'
        OBVIOUS
      <4>1. process[p].batch \in Seq(Rows') /\ process[p].found \in SUBSET Rows'
        BY <1>1, <2>3, PassesAreTyped, SeqMonotonic
      <4> QED BY <1>1, <4>1, PassesAreTyped DEF PassRow
    <3>2. process' \in [Processes -> PassRow']
      BY <1>1, <2>5, <2>6, <3>1 DEF TypeOK
    <3>3. \A p \in Processes :
           /\ process'[p].pc = "creating" => process'[p].request \in Requests
           /\ process'[p].pc \in {"marking", "building", "failing", "rescuing"}
                => process'[p].batch # <<>>
      BY <1>1, <2>6, <2>7 DEF TypeOK
    <3> QED BY <1>1, <2>3, <3>2, <3>3 DEF TypeOK
  <2>9. \A y \in Rows' : Sound(exports[y])'
    BY <2>2, <2>3 DEF ExportInv, Sound
  <2>10. OneExportPerKey'
    <3>1. \A y \in Rows : exports[y].key = q.key => q.key = None
      BY <1>3 DEF KeyIsTaken, RowsOf
    <3> QED BY <2>2, <2>3, <3>1 DEF ExportInv, OneExportPerKey
  <2>12. ProcessingIsHeld'
    <3>1. \A y \in Rows : Held(y) => Held(y)'
      BY <1>1, <2>7 DEF Held
    <3> QED BY <1>1, <2>2, <2>3, <3>1 DEF ExportInv, ProcessingIsHeld
  <2>13. CreatorsBuildNothing'
    BY <2>6, <2>7 DEF ExportInv, CreatorsBuildNothing
  <2> QED BY <2>8, <2>9, <2>10, <2>12, <2>13 DEF ExportInv
<1> QED BY <1>2, <1>3


-----------------------------------------------------------------------------
(* Time: no process takes a step. *)

LEMMA RowStep ==
  ASSUME ExportInv, UNCHANGED process, faults' \in 0 .. MaxFaults, faults <= faults',
         NEW x \in Rows, NEW row \in ExportRow, exports' = [exports EXCEPT ![x] = row],
         row.key = exports[x].key, Sound(row),
         row.status = "PROCESSING" => exports[x].status = "PROCESSING"
  PROVE  ExportInv'
<1>1. TypeOK /\ x \in DOMAIN exports
  BY RowsAreTyped DEF ExportInv
<1>2. /\ exports' \in Seq(ExportRow) /\ Rows' = Rows /\ exports'[x] = row
      /\ \A y \in Rows \ {x} : exports'[y] = exports[y]
  BY <1>1, RowChanges DEF TypeOK, Rows
<1>3. TypeOK' /\ CreatorsBuildNothing'
  BY <1>1, <1>2 DEF ExportInv, CreatorsBuildNothing, TypeOK, PassRow
<1>4. (\A y \in Rows : Sound(exports[y]))' /\ OneExportPerKey'
  BY <1>2 DEF ExportInv, Sound, OneExportPerKey
<1>5. \A y \in Rows : Held(y)' <=> Held(y)
  BY DEF Held
<1>7. ProcessingIsHeld'
  <2>1. faults > 0 => faults' > 0
    BY <1>1, BoundsAreNumbers DEF TypeOK
  <2> QED BY <1>2, <1>5, <2>1 DEF ExportInv, ProcessingIsHeld
<1> QED BY <1>3, <1>4, <1>7 DEF ExportInv

LEMMA TimeStep ==
  ASSUME ExportInv, NEW x \in Rows, ExpireExport(x) \/ GrowStale(x)
  PROVE  ExportInv'
<1>1. /\ TypeOK /\ exports[x] \in ExportRow /\ Sound(exports[x]) /\ UNCHANGED process
      /\ faults' \in 0 .. MaxFaults /\ faults <= faults'
  <2>1. TypeOK /\ exports[x] \in ExportRow /\ Sound(exports[x]) /\ UNCHANGED process
    BY RowsAreTyped DEF ExportInv, ExpireExport, GrowStale
  <2>2. faults' \in 0 .. MaxFaults /\ faults <= faults'
    BY <2>1, BoundsAreNumbers DEF TypeOK, ExpireExport, GrowStale, Outlives
  <2> QED BY <2>1, <2>2
<1>2. CASE ExpireExport(x)
  <2> DEFINE row == [exports[x] EXCEPT !.status = "EXPIRED"]
  <2>1. /\ row \in ExportRow /\ row.status = "EXPIRED" /\ row.key = exports[x].key
        /\ row.file = exports[x].file
    BY <1>1 DEF ExportRow, Statuses
  <2>2. exports' = [exports EXCEPT ![x] = row] /\ exports[x].file
    BY <1>1, <1>2 DEF ExpireExport, Sound
  <2> HIDE DEF row
  <2>3. Sound(row)
    BY <2>1, <2>2 DEF Sound
  <2> QED BY <1>1, <2>1, <2>2, <2>3, RowStep
<1>3. CASE GrowStale(x)
  <2> DEFINE row == [exports[x] EXCEPT !.stale = TRUE]
  <2>1. /\ row \in ExportRow /\ row.status = exports[x].status /\ row.key = exports[x].key
        /\ row.file = exports[x].file
    BY <1>1 DEF ExportRow
  <2>2. exports' = [exports EXCEPT ![x] = row]
    BY <1>3 DEF GrowStale
  <2> HIDE DEF row
  <2>3. Sound(row)
    BY <1>1, <2>1 DEF Sound
  <2> QED BY <1>1, <2>1, <2>2, <2>3, RowStep
<1> QED BY <1>2, <1>3

-----------------------------------------------------------------------------
(* The steps of a pass before it builds. *)

LEMMA StartPassStep ==
  ASSUME ExportInv, NEW w \in Workers, StartPass(w)
  PROVE  ExportInv'
<1>1. /\ TypeOK /\ w \in Processes /\ exports' = Recovered /\ UNCHANGED faults
      /\ process[w] = Idle /\ \A x : ~Holds(Idle, x)
  BY IdleHoldsNothing DEF ExportInv, StartPass, Processes
<1>2. \A x \in Rows :
        /\ Recovered[x] \in ExportRow
        /\ Recovered[x].key = exports[x].key
        /\ Recovered[x] = exports[x] \/ Recovered[x].status = "QUEUED"
  <2> SUFFICES ASSUME NEW x \in Rows
               PROVE  /\ Recovered[x] \in ExportRow
                      /\ Recovered[x].key = exports[x].key
                      /\ Recovered[x] = exports[x] \/ Recovered[x].status = "QUEUED"
    OBVIOUS
  <2>1. exports[x] \in ExportRow
    BY <1>1, RowsAreTyped
  <2> DEFINE row == [exports[x] EXCEPT !.status = "QUEUED", !.stale = FALSE]
  <2>2. row \in ExportRow /\ row.key = exports[x].key /\ row.status = "QUEUED"
    BY <2>1 DEF ExportRow, Statuses
  <2>3. Recovered[x] = row \/ Recovered[x] = exports[x]
    BY DEF Recovered
  <2> HIDE DEF row
  <2> QED BY <2>1, <2>2, <2>3
<1>3. Recovered \in Seq(ExportRow) /\ DOMAIN Recovered = Rows
  <2>1. Len(exports) \in Nat /\ Rows = 1 .. Len(exports)
    BY <1>1, LenProperties DEF TypeOK, Rows
  <2>2. Recovered = [x \in Rows |-> Recovered[x]]
    BY DEF Recovered
  <2>3. Recovered \in [1 .. Len(exports) -> ExportRow]
    BY <1>2, <2>1, <2>2
  <2>4. DOMAIN Recovered = Rows
    BY <2>2
  <2>5. Recovered \in Seq(ExportRow)
    BY <2>1, <2>3, SeqDef
  <2> QED BY <2>4, <2>5
<1> DEFINE pass == [Idle EXCEPT !.pc = "claiming", !.found = Candidates(Recovered)]
<1>4. Candidates(Recovered) \subseteq Rows
  BY <1>3 DEF Candidates
<1>5. pass \in PassRow /\ pass.pc = "claiming" /\ pass.batch = <<>>
  <2>1. pass \in PassRow /\ pass.pc = "claiming"
    BY <1>1, <1>4, PassesAreTyped DEF PassRow
  <2>2. pass.batch = <<>>
    BY DEF Idle
  <2> QED BY <2>1, <2>2
<1>6. process' = [process EXCEPT ![w] = pass]
  BY DEF StartPass
<1> HIDE DEF pass
<1>7. \A x : ~Holds(pass, x)
  BY <1>5, IdleHoldsNothing
<1>8. exports' \in Seq(ExportRow) /\ Rows' = Rows /\ faults' \in 0 .. MaxFaults /\ faults <= faults'
  BY <1>1, <1>3, BoundsAreNumbers DEF Rows, TypeOK
<1>9. \A x \in Rows : Sound(exports'[x]) /\ exports'[x].key = exports[x].key
                      /\ (exports'[x] = exports[x] \/ exports'[x].status = "QUEUED")
  BY <1>1, <1>2 DEF ExportInv, Sound
<1>10. \A x \in Rows :
           /\ exports'[x].key = exports[x].key
           /\ Sound(exports'[x])
           /\ exports'[x].status = "PROCESSING" =>
                \/ Holds(pass, x)
                \/ faults' > 0
                \/ exports[x].status = "PROCESSING" /\ ~Holds(process[w], x)
  BY <1>1, <1>7, <1>9
<1> QED BY <1>1, <1>5, <1>6, <1>8, <1>10, ProcessStep

LEMMA ClaimNextStep ==
  ASSUME ExportInv, NEW w \in Workers, ClaimNext(w)
  PROVE  ExportInv'
<1>1. /\ TypeOK /\ w \in Processes /\ UNCHANGED faults /\ process[w].pc = "claiming"
      /\ process[w] \in PassRow /\ process[w].batch \in Seq(Rows)
      /\ process[w].found \subseteq Rows
  BY PassesAreTyped DEF ExportInv, ClaimNext, Processes
<1>2. faults' \in 0 .. MaxFaults /\ faults <= faults'
  BY <1>1, BoundsAreNumbers DEF TypeOK
<1>3. PICK x \in process[w].found :
        LET free == exports[x].status = "QUEUED" IN
        /\ exports' = IF free THEN Written(x, "PROCESSING", exports[x].file) ELSE exports
        /\ process' = [process EXCEPT ![w].found = @ \ {x},
                                      ![w].batch = IF free THEN Append(@, x) ELSE @]
  BY DEF ClaimNext
<1>4. x \in Rows
  BY <1>1
<1>5. CASE exports[x].status = "QUEUED"
  <2> PICK b : b = Append(process[w].batch, x)
    OBVIOUS
  <2> PICK pass : pass = [process[w] EXCEPT !.found = @ \ {x}, !.batch = b]
    OBVIOUS
  <2>1. b \in Seq(Rows) /\ DOMAIN b = DOMAIN process[w].batch \cup {Len(process[w].batch) + 1}
        /\ b[Len(process[w].batch) + 1] = x
        /\ \A i \in DOMAIN process[w].batch : b[i] = process[w].batch[i]
    BY <1>1, <1>4, AppendProperties, LenProperties
  <2>2. process' = [process EXCEPT ![w] = pass] /\ exports' = Written(x, "PROCESSING", exports[x].file)
    BY <1>3, <1>5
  <2>3. pass \in PassRow /\ pass.pc = "claiming" /\ pass.batch = b
    BY <1>1, <2>1 DEF PassRow
  <2>4. Holds(pass, x) /\ \A y \in Rows : Holds(process[w], y) => Holds(pass, y)
    BY <2>1, <2>3 DEF Holds
  <2>6. "PROCESSING" \in Statuses \ {"EXPIRED"} /\ exports[x].file \in BOOLEAN
    BY <1>1, <1>4, RowsAreTyped DEF Statuses
  <2>7. \A y \in Rows : Holds(process[w], y) => Holds(pass, y) \/ y = x
    BY <2>4
  <2>8. PICK file \in BOOLEAN : file = exports[x].file
    BY <2>6
  <2>9. exports' = Written(x, "PROCESSING", file)
    BY <2>2, <2>8
  <2>10. w \in Processes /\ pass.pc # "creating"
         /\ pass.pc \notin {"marking", "building", "failing", "rescuing"}
    BY <1>1, <2>3
  <2>11. process' = [process EXCEPT ![w] = pass] /\ pass \in PassRow
    BY <2>2, <2>3
  <2>12. "PROCESSING" \in Statuses \ {"EXPIRED"} /\ Holds(pass, x)
    BY <2>4, <2>6
  <2> QED BY ONLY ExportInv, <1>2, <1>4, <2>7, <2>9, <2>10, <2>11, <2>12, WriteStep
<1>6. CASE exports[x].status # "QUEUED"
  <2>1. exports' = exports
    BY <1>3, <1>6
  <2>2. process' = [process EXCEPT ![w] = [process[w] EXCEPT !.found = @ \ {x},
                                                             !.batch = process[w].batch]]
    BY <1>3, <1>6
  <2>3. [process[w] EXCEPT !.found = @ \ {x}, !.batch = process[w].batch] \in PassRow
        /\ [process[w] EXCEPT !.found = @ \ {x}, !.batch = process[w].batch].pc = "claiming"
        /\ [process[w] EXCEPT !.found = @ \ {x}, !.batch = process[w].batch].batch
             = process[w].batch
    BY <1>1 DEF PassRow
  <2>4. \A y : Holds([process[w] EXCEPT !.found = @ \ {x}, !.batch = process[w].batch], y)
                 <=> Holds(process[w], y)
    BY <2>3 DEF Holds
  <2> QED BY <1>1, <1>2, <2>1, <2>2, <2>3, <2>4, QuietStep
<1> QED BY <1>5, <1>6

LEMMA EndClaimsStep ==
  ASSUME ExportInv, NEW w \in Workers, EndClaims(w)
  PROVE  ExportInv'
<1>1. /\ TypeOK /\ w \in Processes /\ UNCHANGED <<exports, faults>> /\ process[w] \in PassRow
  BY PassesAreTyped DEF ExportInv, EndClaims, Processes
<1>2. faults' \in 0 .. MaxFaults /\ faults <= faults'
  BY <1>1, BoundsAreNumbers DEF TypeOK
<1> DEFINE pc == IF process[w].batch = <<>> THEN "idle" ELSE "marking"
           pass == [process[w] EXCEPT !.pc = pc]
<1>3. process' = [process EXCEPT ![w] = pass]
  BY DEF EndClaims
<1>4. pc \in {"idle", "marking"} /\ (pc = "marking" => process[w].batch # <<>>)
  OBVIOUS
<1> HIDE DEF pc
<1>5. pass \in PassRow /\ pass.pc = pc /\ pass.batch = process[w].batch
  BY <1>1, <1>4 DEF PassRow
<1> HIDE DEF pass
<1>6. \A y : Holds(pass, y) <=> Holds(process[w], y)
  BY <1>5 DEF Holds
<1> QED BY <1>1, <1>2, <1>3, <1>4, <1>5, <1>6, QuietStep


-----------------------------------------------------------------------------
(* Building an export. *)

(* What a builder is at, and what it goes on with. *)
LEMMA Builder ==
  ASSUME ExportInv, NEW p \in Processes,
         process[p].pc \in {"marking", "building", "failing", "rescuing"}
  PROVE  /\ TypeOK /\ process[p] \in PassRow /\ process[p].batch # <<>>
         /\ Current(p) \in Rows /\ Holds(process[p], Current(p))
         /\ exports[Current(p)].file \in BOOLEAN
         /\ faults \in 0 .. MaxFaults /\ faults <= faults
         /\ (~(faults > 0) \/ faults > 0)
<1>1. TypeOK /\ process[p].batch # <<>>
  BY DEF ExportInv, TypeOK
<1>2. Current(p) \in Rows /\ Holds(process[p], Current(p))
  BY <1>1, CurrentIsHeld
<1>3. faults \in 0 .. MaxFaults /\ faults <= faults
  BY <1>1, BoundsAreNumbers DEF TypeOK
<1> QED BY <1>1, <1>2, <1>3, RowsAreTyped, PassesAreTyped

LEMMA WithPc ==
  ASSUME NEW p \in Processes, process[p] \in PassRow,
         NEW pc \in {"marking", "building", "failing", "rescuing"}
  PROVE  /\ [process[p] EXCEPT !.pc = pc] \in PassRow
         /\ [process[p] EXCEPT !.pc = pc].pc = pc
         /\ [process[p] EXCEPT !.pc = pc].batch = process[p].batch
         /\ \A x : Holds([process[p] EXCEPT !.pc = pc], x) <=> Holds(process[p], x)
<1>1. /\ [process[p] EXCEPT !.pc = pc] \in PassRow
      /\ [process[p] EXCEPT !.pc = pc].pc = pc
      /\ [process[p] EXCEPT !.pc = pc].batch = process[p].batch
  BY DEF PassRow
<1> QED BY <1>1 DEF Holds

LEMMA MarkStep ==
  ASSUME ExportInv, NEW p \in Processes, Mark(p)
  PROVE  ExportInv'
<1>1. process[p].pc = "marking" /\ UNCHANGED faults
  BY DEF Mark
<1> PICK pass : pass = [process[p] EXCEPT !.pc = "building"]
  OBVIOUS
<1> PICK x : x = Current(p)
  OBVIOUS
<1>2. /\ x \in Rows /\ Holds(process[p], x) /\ exports[x].file \in BOOLEAN
      /\ process[p] \in PassRow /\ process[p].batch # <<>>
      /\ faults' \in 0 .. MaxFaults /\ faults <= faults'
  BY <1>1, Builder
<1>3. /\ pass \in PassRow /\ pass.pc = "building" /\ pass.batch # <<>>
      /\ \A y : Holds(pass, y) <=> Holds(process[p], y)
  BY <1>2, WithPc
<1>4. exports' = Written(x, "PROCESSING", exports[x].file) /\ process' = [process EXCEPT ![p] = pass]
  BY DEF Mark, Goto
<1>5. PICK file \in BOOLEAN : file = exports[x].file
  BY <1>2
<1>6. "PROCESSING" \in Statuses \ {"EXPIRED"} /\ exports' = Written(x, "PROCESSING", file)
  BY <1>4, <1>5 DEF Statuses
<1>7. /\ pass.pc # "creating" /\ Holds(pass, x)
      /\ \A y \in Rows : Holds(process[p], y) => Holds(pass, y) \/ y = x
  BY <1>2, <1>3
<1>8. process' = [process EXCEPT ![p] = pass] /\ p \in Processes /\ pass \in PassRow
  BY <1>3, <1>4
<1>9. x \in Rows /\ faults' \in 0 .. MaxFaults /\ faults <= faults'
  BY <1>2
<1>10. pass.pc \in {"marking", "building", "failing", "rescuing"} => pass.batch # <<>>
  BY <1>3
<1> QED BY ONLY ExportInv, <1>6, <1>7, <1>8, <1>9, <1>10, WriteStep

(* An export that is finished. *)
LEMMA FinishStep ==
  ASSUME ExportInv, NEW p \in Processes, Complete(p) \/ Fail(p)
  PROVE  ExportInv'
<1>1. process[p].pc \in {"building", "failing", "rescuing"} /\ UNCHANGED faults
  BY DEF Complete, Fail
<1> PICK pass : pass = Rest(process[p])
  OBVIOUS
<1> PICK x : x = Current(p)
  OBVIOUS
<1>2. /\ x \in Rows /\ process[p].batch # <<>> /\ TypeOK
      /\ faults' \in 0 .. MaxFaults /\ faults <= faults'
  BY <1>1, Builder
<1>3. /\ pass \in PassRow
      /\ pass.pc = "idle" \/ (pass.pc = "marking" /\ pass.batch # <<>>)
      /\ \A y : Holds(pass, y) => Holds(process[p], y)
      /\ \A y : Holds(process[p], y) => y = x \/ Holds(pass, y)
  BY <1>2, RestIsTyped
<1>4. process' = [process EXCEPT ![p] = pass]
  BY DEF Complete, Fail, Proceed, Rest
<1>5. CASE Complete(p)
  <2>1. exports' = Written(x, "COMPLETED", TRUE) /\ "COMPLETED" \in Statuses \ {"EXPIRED"}
    BY <1>5 DEF Complete, Statuses
  <2> QED BY <1>2, <1>3, <1>4, <2>1, WriteStep
<1>6. CASE Fail(p)
  <2>1. exports' = Written(x, "FAILED", FALSE) /\ "FAILED" \in Statuses \ {"EXPIRED"}
    BY <1>6 DEF Fail, Statuses
  <2> QED BY <1>2, <1>3, <1>4, <2>1, WriteStep
<1> QED BY <1>5, <1>6

LEMMA BuildFailsStep ==
  ASSUME ExportInv, NEW p \in Processes, BuildFails(p)
  PROVE  ExportInv'
<1>1. process[p].pc = "building" /\ UNCHANGED <<exports, faults>>
  BY DEF BuildFails
<1> PICK pass : pass = [process[p] EXCEPT !.pc = "failing"]
  OBVIOUS
<1>2. /\ process[p] \in PassRow /\ process[p].batch # <<>>
      /\ faults' \in 0 .. MaxFaults /\ faults <= faults'
  BY <1>1, Builder
<1>3. /\ pass \in PassRow /\ pass.pc = "failing" /\ pass.batch # <<>>
      /\ \A y : Holds(pass, y) <=> Holds(process[p], y)
  BY <1>2, WithPc
<1>4. process' = [process EXCEPT ![p] = pass]
  BY DEF BuildFails, Goto
<1> QED BY <1>1, <1>2, <1>3, <1>4, QuietStep

LEMMA CrashStep ==
  ASSUME ExportInv, NEW p \in Processes, Crash(p)
  PROVE  ExportInv'
<1>1. TypeOK /\ UNCHANGED exports /\ process' = [process EXCEPT ![p] = Idle]
  BY DEF ExportInv, Crash
<1>2. faults' \in 0 .. MaxFaults /\ faults <= faults' /\ faults' > 0
  BY <1>1, BoundsAreNumbers DEF Crash, TypeOK
<1> QED BY <1>1, <1>2, IdleHoldsNothing, PassesAreTyped, QuietStep

LEMMA WriteErrorStep ==
  ASSUME ExportInv, NEW p \in Processes, WriteError(p)
  PROVE  ExportInv'
<1>1. process[p].pc \in {"marking", "building", "failing", "rescuing"}
  BY DEF WriteError
<1> PICK x : x = Current(p)
  OBVIOUS
<1>2. /\ x \in Rows /\ exports[x].file \in BOOLEAN /\ TypeOK
      /\ process[p] \in PassRow /\ process[p].batch # <<>> /\ Holds(process[p], x)
  BY <1>1, Builder
<1>3. faults' \in 0 .. MaxFaults /\ faults <= faults' /\ faults' > 0
  BY <1>2, BoundsAreNumbers DEF WriteError, TypeOK
<1>4. PICK pass \in PassRow :
        /\ process' = [process EXCEPT ![p] = pass]
        /\ pass.pc \in {"idle", "failing", "rescuing"}
        /\ pass.pc # "idle" => pass.batch # <<>>
        /\ \A y : Holds(pass, y) => Holds(process[p], y)
  <2>1. CASE process' = [process EXCEPT ![p] = [process[p] EXCEPT !.pc = "failing"]]
    BY <1>2, <2>1, WithPc
  <2>2. CASE process' = [process EXCEPT ![p] = [process[p] EXCEPT !.pc = "rescuing"]]
    BY <1>2, <2>2, WithPc
  <2>3. CASE process' = [process EXCEPT ![p] = Idle]
    BY <1>2, <2>3, IdleHoldsNothing, PassesAreTyped
  <2>4. \/ process' = [process EXCEPT ![p] = [process[p] EXCEPT !.pc = "failing"]]
        \/ process' = [process EXCEPT ![p] = [process[p] EXCEPT !.pc = "rescuing"]]
        \/ process' = [process EXCEPT ![p] = Idle]
    <3>1. CASE process[p].pc = "building"
      BY <3>1 DEF WriteError
    <3>2. CASE process[p].pc \notin {"building", "rescuing"} /\ p \in Workers
      BY <3>2 DEF WriteError
    <3>3. CASE process[p].pc # "building" /\
                 ~(process[p].pc \notin {"building", "rescuing"} /\ p \in Workers)
      BY <3>3 DEF WriteError
    <3> QED BY <3>1, <3>2, <3>3
  <2> QED BY <2>1, <2>2, <2>3, <2>4
<1>5. CASE UNCHANGED exports
  BY <1>3, <1>4, <1>5, QuietStep
<1>6. ASSUME NEW status \in {"PROCESSING", "COMPLETED", "FAILED"}, NEW file \in BOOLEAN,
             exports' = Written(x, status, file),
             status = "COMPLETED" => file, status = "FAILED" => ~file
      PROVE  ExportInv'
  <2>1. status \in Statuses \ {"EXPIRED"}
    BY <1>6 DEF Statuses
  <2>3. pass.pc # "creating" /\
        (pass.pc \in {"marking", "building", "failing", "rescuing"} => pass.batch # <<>>)
    BY <1>4
  <2> QED BY <1>2, <1>3, <1>4, <1>6, <2>1, <2>3, WriteStep
<1>7. CASE exports' = Written(x, "PROCESSING", exports[x].file)
  BY <1>2, <1>6, <1>7
<1>8. CASE exports' = Written(x, "COMPLETED", TRUE)
  BY <1>6, <1>8
<1>9. CASE exports' = Written(x, "FAILED", FALSE)
  BY <1>6, <1>9
<1>10. \/ UNCHANGED exports
       \/ exports' = Written(x, "PROCESSING", exports[x].file)
       \/ exports' = Written(x, "COMPLETED", TRUE)
       \/ exports' = Written(x, "FAILED", FALSE)
  BY DEF WriteError
<1> QED BY <1>5, <1>7, <1>8, <1>9, <1>10

-----------------------------------------------------------------------------
(* The theorems. *)

LEMMA InitHolds == Init => ExportInv
<1> SUFFICES ASSUME Init PROVE ExportInv
  OBVIOUS
<1>1. Rows = {} /\ exports \in Seq(ExportRow)
  BY EmptySeq DEF Init, Rows
<1>2. Idle \in PassRow
  <2>1. << >> \in Seq(Rows)
    BY EmptySeq
  <2> QED BY <2>1 DEF Idle, PassRow
<1>3. TypeOK /\ CreatorsBuildNothing
  BY <1>1, <1>2, IdleHoldsNothing, BoundsAreNumbers DEF Init, TypeOK, CreatorsBuildNothing
<1> QED BY <1>1, <1>3 DEF ExportInv, OneExportPerKey, ProcessingIsHeld

LEMMA StepHolds == ExportInv /\ [Next]_vars => ExportInv'
<1> SUFFICES ASSUME ExportInv, [Next]_vars PROVE ExportInv'
  OBVIOUS
<1>1. CASE UNCHANGED vars
  BY <1>1 DEF vars, ExportInv, TypeOK, CreatorsBuildNothing, Sound, OneExportPerKey,
              ProcessingIsHeld, Held, Holds, Rows, PassRow
<1>2. ASSUME NEW p \in Processes, Build(p) PROVE ExportInv'
  BY <1>2, MarkStep, FinishStep, BuildFailsStep DEF Build
<1>3. ASSUME NEW a \in Clients, Ask(a) \/ Serve(a) PROVE ExportInv'
  BY <1>2, <1>3, AskStep, CreateStep DEF Serve, Processes
<1>4. ASSUME NEW w \in Workers, Pass(w) PROVE ExportInv'
  BY <1>2, <1>4, StartPassStep, ClaimNextStep, EndClaimsStep DEF Pass, Processes
<1> QED BY <1>1, <1>3, <1>4, TimeStep, WriteErrorStep, CrashStep DEF Next

(* Exports and passes keep their types. *)
THEOREM TypeCorrect == Spec => []TypeOK
<1>1. ExportInv => TypeOK
  BY DEF ExportInv
<1> QED BY InitHolds, StepHolds, <1>1, PTL DEF Spec

(* However requests with one idempotency key overlap, they make one export. *)
THEOREM OneExport == Spec => []OneExportPerKey
<1>1. ExportInv => OneExportPerKey
  BY DEF ExportInv
<1> QED BY InitHolds, StepHolds, <1>1, PTL DEF Spec

(* Whichever of several builders wrote last, what is COMPLETED or EXPIRED   *)
(* has its file, and what FAILED has none.                                  *)
THEOREM FilesAreThere == Spec => []FileIffBuilt
<1>1. ExportInv => FileIffBuilt
  BY DEF ExportInv, FileIffBuilt, Sound
<1> QED BY InitHolds, StepHolds, <1>1, PTL DEF Spec

(* Without a crash or a failed write, nothing is left in PROCESSING that    *)
(* nobody works on, although builders write over each other.                *)
THEOREM ProcessingHasABuilder == Spec => []ProcessingIsHeld
<1>1. ExportInv => ProcessingIsHeld
  BY DEF ExportInv
<1> QED BY InitHolds, StepHolds, <1>1, PTL DEF Spec

-----------------------------------------------------------------------------
(* Expiry. *)

(* The step of one process gives nobody else anything to hold. *)
LEMMA OthersKeepTheirs ==
  ASSUME TypeOK, NEW p \in Processes, NEW pass, NEW x,
         process' = [process EXCEPT ![p] = pass], Holds(pass, x) => Holds(process[p], x)
  PROVE  \A r \in Processes : Holds(process'[r], x) => Holds(process[r], x)
BY DEF TypeOK

(* What builds goes on with what it holds. *)
LEMMA BuildersTakeUpNothing ==
  ASSUME ExportInv, NEW p \in Processes, Build(p) \/ WriteError(p), NEW x
  PROVE  /\ \A r \in Processes : Holds(process'[r], x) => Holds(process[r], x)
         /\ process'[p] # process[p]
<1>1. process[p].pc \in {"marking", "building", "failing", "rescuing"}
  BY DEF Build, Mark, Complete, BuildFails, Fail, WriteError
<1>2. TypeOK /\ process[p] \in PassRow /\ process[p].batch # <<>>
  BY <1>1, Builder
<1> DEFINE At(pc) == [process[p] EXCEPT !.pc = pc]
<1>3. \/ \E pc \in {"building", "failing", "rescuing"} :
           process' = [process EXCEPT ![p] = At(pc)] /\ pc # process[p].pc
      \/ process' = [process EXCEPT ![p] = Idle]
      \/ /\ process' = [process EXCEPT ![p] = Rest(process[p])]
         /\ process[p].pc # "marking"
  <2>1. CASE Mark(p) \/ BuildFails(p)
    BY <2>1 DEF Mark, BuildFails, Goto
  <2>2. CASE Complete(p) \/ Fail(p)
    BY <2>2 DEF Complete, Fail, Proceed, Rest
  <2>3. CASE WriteError(p)
    <3>1. CASE process[p].pc = "building"
      BY <2>3, <3>1 DEF WriteError
    <3>2. CASE process[p].pc \notin {"building", "rescuing"} /\ p \in Workers
      BY <2>3, <3>2 DEF WriteError
    <3>3. CASE process[p].pc # "building" /\
                 ~(process[p].pc \notin {"building", "rescuing"} /\ p \in Workers)
      BY <2>3, <3>3 DEF WriteError
    <3> QED BY <3>1, <3>2, <3>3
  <2> QED BY <2>1, <2>2, <2>3 DEF Build
<1>4. CASE process' = [process EXCEPT ![p] = Idle]
  <2>1. process'[p] = Idle
    BY <1>2, <1>4 DEF TypeOK
  <2> QED BY <1>1, <1>2, <1>4, <2>1, IdleHoldsNothing, OthersKeepTheirs
<1>5. ASSUME NEW pc \in {"building", "failing", "rescuing"}, pc # process[p].pc,
             process' = [process EXCEPT ![p] = At(pc)]
      PROVE  /\ \A r \in Processes : Holds(process'[r], x) => Holds(process[r], x)
             /\ process'[p] # process[p]
  <2>1. At(pc).pc = pc /\ (Holds(At(pc), x) <=> Holds(process[p], x))
    BY <1>2, WithPc
  <2>2. process'[p] = At(pc)
    BY <1>2, <1>5 DEF TypeOK
  <2> HIDE DEF At
  <2> QED BY <1>2, <1>5, <2>1, <2>2, OthersKeepTheirs
<1>6. CASE process' = [process EXCEPT ![p] = Rest(process[p])] /\ process[p].pc # "marking"
  <2>1. /\ Rest(process[p]).pc \in {"idle", "marking"}
        /\ Holds(Rest(process[p]), x) => Holds(process[p], x)
    BY <1>2, RestIsTyped
  <2>2. process'[p] = Rest(process[p])
    BY <1>2, <1>6 DEF TypeOK
  <2> QED BY <1>1, <1>2, <1>6, <2>1, <2>2, OthersKeepTheirs
<1> QED BY <1>3, <1>4, <1>5, <1>6

(* What is begun, claimed or retried is not EXPIRED. *)
LEMMA ExpiredIsNotTakenUp ==
  ASSUME ExportInv, Next, NEW x \in Rows, exports[x].status = "EXPIRED"
  PROVE  \A r \in Processes : Holds(process'[r], x) => Holds(process[r], x)
<1> DEFINE Kept == \A r \in Processes : Holds(process'[r], x) => Holds(process[r], x)
<1>1. TypeOK /\ Clients \subseteq Processes /\ Workers \subseteq Processes
  BY DEF ExportInv, Processes
<1>2. ASSUME NEW p \in Processes, NEW pass, process' = [process EXCEPT ![p] = pass],
             pass.batch = <<>>
      PROVE  Kept
  BY <1>1, <1>2, IdleHoldsNothing, OthersKeepTheirs
<1>3. ASSUME NEW p \in Processes, NEW y, y # x, process' = [process EXCEPT ![p] = Building(y)]
      PROVE  Kept
  <2>1. Building(y).batch = <<y>>
    BY DEF Building, Idle
  <2>2. ~Holds(Building(y), x)
    BY <1>3, <2>1 DEF Holds
  <2> QED BY <1>1, <1>3, <2>2, OthersKeepTheirs
<1> HIDE DEF Kept
<1>4. ASSUME NEW a \in Clients, Ask(a) PROVE Kept
  <2>1. ASSUME NEW r \in Requests, RequestWithoutKey(a, r) PROVE Kept
    <3>1. process' = [process EXCEPT ![a] = [Idle EXCEPT !.pc = "creating", !.request = r]]
      BY <2>1 DEF RequestWithoutKey
    <3>2. [Idle EXCEPT !.pc = "creating", !.request = r].batch = <<>>
      BY DEF Idle
    <3> QED BY <1>1, <1>2, <3>1, <3>2
  <2>2. ASSUME NEW r \in Requests, NEW k \in Keys, FindReplay(a, r, k) PROVE Kept
    <3>1. CASE RowsOf(k) = {}
      <4>1. process' = [process EXCEPT ![a] =
                          [Idle EXCEPT !.pc = "creating", !.key = k, !.request = r]]
        BY <2>2, <3>1 DEF FindReplay
      <4>2. [Idle EXCEPT !.pc = "creating", !.key = k, !.request = r].batch = <<>>
        BY DEF Idle
      <4> QED BY <1>1, <1>2, <4>1, <4>2
    <3>2. CASE RowsOf(k) # {}
      <4> PICK y \in Rows : y = CHOOSE z \in RowsOf(k) : TRUE
        BY <3>2 DEF RowsOf
      <4>1. \/ exports[y].status = "QUEUED" /\ process' = [process EXCEPT ![a] = Building(y)]
            \/ process' = [process EXCEPT ![a] = Idle]
        BY <2>2, <3>2 DEF FindReplay
      <4> QED BY <1>1, <1>2, <1>3, <4>1, IdleHoldsNothing
    <3> QED BY <3>1, <3>2
  <2>3. ASSUME NEW y \in Rows, RetryExport(a, y) PROVE Kept
    <3>1. y # x
      BY <2>3 DEF RetryExport, Retryable
    <3>2. \/ process' = [process EXCEPT ![a] = Building(y)]
          \/ process' = [process EXCEPT ![a] = Idle]
      BY <2>3 DEF RetryExport
    <3> QED BY <1>1, <1>2, <1>3, <3>1, <3>2, IdleHoldsNothing
  <2> QED BY <1>4, <2>1, <2>2, <2>3 DEF Ask
<1>5. ASSUME NEW a \in Clients, Create(a) PROVE Kept
  <2>1. \/ process' = [process EXCEPT ![a] = Building(Len(exports) + 1)]
        \/ process' = [process EXCEPT ![a] = Idle]
    BY <1>5 DEF Create
  <2>2. Len(exports) + 1 # x
    <3>1. exports \in Seq(ExportRow) /\ x \in 1 .. Len(exports) /\ Len(exports) \in Nat
      BY <1>1, LenProperties DEF TypeOK, Rows
    <3> QED BY <3>1
  <2> QED BY <1>1, <1>2, <1>3, <2>1, <2>2, IdleHoldsNothing
<1>6. ASSUME NEW w \in Workers, StartPass(w) PROVE Kept
  <2>1. process' = [process EXCEPT ![w] =
                      [Idle EXCEPT !.pc = "claiming", !.found = Candidates(Recovered)]]
    BY <1>6 DEF StartPass
  <2>2. [Idle EXCEPT !.pc = "claiming", !.found = Candidates(Recovered)].batch = <<>>
    BY DEF Idle
  <2> QED BY <1>1, <1>2, <2>1, <2>2
<1>7. ASSUME NEW w \in Workers, ClaimNext(w) PROVE Kept
  <2>1. /\ process[w] \in PassRow /\ process[w].batch \in Seq(Rows)
        /\ process[w].found \subseteq Rows
    BY <1>1, PassesAreTyped
  <2>2. PICK y \in process[w].found :
          process' = [process EXCEPT ![w].found = @ \ {y},
                                     ![w].batch = IF exports[y].status = "QUEUED"
                                                  THEN Append(@, y) ELSE @]
    BY <1>7 DEF ClaimNext
  <2> PICK b : b = IF exports[y].status = "QUEUED"
                   THEN Append(process[w].batch, y) ELSE process[w].batch
    OBVIOUS
  <2> PICK pass : pass = [process[w] EXCEPT !.found = @ \ {y}, !.batch = b]
    OBVIOUS
  <2>3. process' = [process EXCEPT ![w] = pass]
    BY <2>2
  <2>4. pass.batch = b
    BY <2>1 DEF PassRow
  <2>5. \A i \in DOMAIN b : b[i] = x => i \in DOMAIN process[w].batch /\ process[w].batch[i] = x
    <3>1. CASE exports[y].status # "QUEUED"
      BY <3>1
    <3>2. CASE exports[y].status = "QUEUED"
      <4>1. y # x /\ y \in Rows /\ b = Append(process[w].batch, y)
        BY <2>1, <3>2
      <4>2. /\ DOMAIN b = DOMAIN process[w].batch \cup {Len(process[w].batch) + 1}
            /\ b[Len(process[w].batch) + 1] = y
            /\ \A i \in DOMAIN process[w].batch : b[i] = process[w].batch[i]
        BY <2>1, <4>1, AppendProperties, LenProperties
      <4> QED BY <4>1, <4>2
    <3> QED BY <3>1, <3>2
  <2>6. Holds(pass, x) => Holds(process[w], x)
    BY <2>4, <2>5 DEF Holds
  <2> QED BY <1>1, <2>3, <2>6, OthersKeepTheirs DEF Kept
<1>8. ASSUME NEW w \in Workers, EndClaims(w) PROVE Kept
  <2> PICK pc : pc = IF process[w].batch = <<>> THEN "idle" ELSE "marking"
    OBVIOUS
  <2>1. process' = [process EXCEPT ![w] = [process[w] EXCEPT !.pc = pc]]
    BY <1>8 DEF EndClaims
  <2>2. process[w] \in PassRow
    BY <1>1, PassesAreTyped
  <2>3. [process[w] EXCEPT !.pc = pc].batch = process[w].batch
    BY <2>2 DEF PassRow
  <2> QED BY <1>1, <2>1, <2>3, OthersKeepTheirs DEF Holds, Kept
<1>9. ASSUME NEW p \in Processes, Build(p) \/ WriteError(p) PROVE Kept
  BY <1>9, BuildersTakeUpNothing DEF Kept
<1>10. ASSUME NEW p \in Processes, Crash(p) PROVE Kept
  BY <1>1, <1>2, <1>10, IdleHoldsNothing DEF Crash
<1>11. ASSUME UNCHANGED process PROVE Kept
  BY <1>11 DEF Kept
<1>12. ASSUME NEW a \in Clients, Ask(a) \/ Serve(a) PROVE Kept
  BY <1>1, <1>4, <1>5, <1>9, <1>12 DEF Serve
<1>13. ASSUME NEW w \in Workers, Pass(w) PROVE Kept
  BY <1>1, <1>6, <1>7, <1>8, <1>9, <1>13 DEF Pass
<1>14. Kept
  BY <1>9, <1>10, <1>11, <1>12, <1>13 DEF Next, ExpireExport, GrowStale
<1> QED BY <1>14 DEF Kept

(* Who writes an EXPIRED row is building it. *)
LEMMA OnlyItsBuilderWritesExpired ==
  ASSUME ExportInv, Next, NEW x \in Rows, exports[x].status = "EXPIRED"
  PROVE  exports'[x].status = "EXPIRED"
         \/ \E p \in Processes : Builds(p, x) /\ process'[p] # process[p]
<1> DEFINE Stays == exports'[x].status = "EXPIRED"
           Built == \E p \in Processes : Builds(p, x) /\ process'[p] # process[p]
<1>1. TypeOK
  BY DEF ExportInv
<1>2. ASSUME NEW y \in Rows, NEW status \in Statuses, NEW file \in BOOLEAN, y # x,
             exports' = Written(y, status, file)
      PROVE  Stays
  BY <1>1, <1>2, WrittenRow
<1>3. ASSUME NEW p \in Processes, Build(p) \/ WriteError(p)
      PROVE  /\ Current(p) \in Rows /\ exports[Current(p)].file \in BOOLEAN
             /\ Current(p) = x => Built
  <2>1. process[p].pc \in {"marking", "building", "failing", "rescuing"}
    BY <1>3 DEF Build, Mark, Complete, BuildFails, Fail, WriteError
  <2> QED BY <1>3, <2>1, Builder, BuildersTakeUpNothing DEF Builds
<1> HIDE DEF Built
<1>4. {"QUEUED", "PROCESSING", "COMPLETED", "FAILED"} \subseteq Statuses
  BY DEF Statuses
<1>5. ASSUME NEW p \in Processes, Build(p) PROVE Stays \/ Built
  BY <1>2, <1>3, <1>4, <1>5 DEF Build, Mark, Complete, BuildFails, Fail
<1>6. ASSUME NEW p \in Processes, WriteError(p) PROVE Stays \/ Built
  BY <1>2, <1>3, <1>4, <1>6 DEF WriteError
<1>7. ASSUME NEW a \in Clients, Ask(a) PROVE Stays
  BY <1>2, <1>4, <1>7 DEF Ask, RequestWithoutKey, FindReplay, RetryExport, Retryable
<1>8. ASSUME NEW a \in Clients, Create(a) PROVE Stays
  <2>1. Queued(process[a].request, process[a].key) \in ExportRow
    <3>1. process[a] \in PassRow /\ process[a].request \in Requests
      BY <1>1, <1>8, PassesAreTyped DEF Create, TypeOK, Processes
    <3> QED BY <3>1 DEF Queued, ExportRow, PassRow, Statuses
  <2> QED BY <1>1, <1>8, <2>1, RowIsAdded DEF Create, TypeOK, Rows
<1>9. ASSUME NEW w \in Workers, StartPass(w) PROVE Stays
  BY <1>9 DEF StartPass, Recovered
<1>10. ASSUME NEW w \in Workers, ClaimNext(w) PROVE Stays
  <2>1. PICK y \in process[w].found :
          exports' = IF exports[y].status = "QUEUED"
                     THEN Written(y, "PROCESSING", exports[y].file) ELSE exports
    BY <1>10 DEF ClaimNext
  <2>2. y \in Rows /\ exports[y].file \in BOOLEAN
    BY <1>1, <2>1, PassesAreTyped, RowsAreTyped DEF Processes
  <2> QED BY <1>2, <1>4, <2>1, <2>2
<1>11. ASSUME NEW y \in Rows, ExpireExport(y) \/ GrowStale(y)
       PROVE  Stays
  <2>1. exports[x] \in ExportRow /\ x \in DOMAIN exports /\ y \in DOMAIN exports
    BY <1>1, RowsAreTyped
  <2> QED BY <1>11, <2>1 DEF ExpireExport, GrowStale, ExportRow
<1>12. ASSUME NEW w \in Workers, Pass(w) PROVE Stays \/ Built
  BY <1>5, <1>9, <1>10, <1>12 DEF Pass, EndClaims, Processes
<1>13. ASSUME NEW a \in Clients, Serve(a) PROVE Stays \/ Built
  BY <1>5, <1>8, <1>13 DEF Serve, Processes
<1>14. ASSUME NEW p \in Processes, Crash(p) PROVE Stays
  BY <1>14 DEF Crash
<1>15. Stays \/ Built
  BY <1>6, <1>7, <1>11, <1>12, <1>13, <1>14 DEF Next
<1> QED BY <1>15 DEF Built

(* An EXPIRED export is taken up by no request, retry or pass; it can only  *)
(* come back by a write of one who was building it when it expired.         *)
THEOREM ExpiryIsFinal == Spec => ExpiredIsFinal
<1>1. ExportInv /\ [Next]_vars =>
        [\A x \in Rows : exports[x].status = "EXPIRED" =>
           /\ \A p \in Processes : Holds(process'[p], x) => Holds(process[p], x)
           /\ exports'[x].status = "EXPIRED"
              \/ \E p \in Processes : Builds(p, x) /\ process'[p] # process[p]]_vars
  BY ExpiredIsNotTakenUp, OnlyItsBuilderWritesExpired
<1> QED BY InitHolds, StepHolds, <1>1, PTL DEF Spec, ExpiredIsFinal

=============================================================================
