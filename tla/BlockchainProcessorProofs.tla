--------------------- MODULE BlockchainProcessorProofs ---------------------
(***************************************************************************)
(* Proofs about BlockchainProcessor, for every set of blocks and every     *)
(* bound: the types of all variables; on a node that does not trim its     *)
(* tables, that tables and blocks match whatever is pushed, popped, reset, *)
(* rescanned or interrupted by crashes; that every step of an operation    *)
(* brings it closer to its end; and on a node that does trim, that no trim *)
(* or crash costs the effects of a block, nor, while the trim height says  *)
(* how far the tables were trimmed, a row that a rollback needs.           *)
(***************************************************************************)
EXTENDS BlockchainProcessor, SequenceTheorems, TLAPS

\* How the lengths of the chain and of what the tables hold go together.
Lengths ==
    /\ phase \in {"idle", "popping", "scanDue"} => tip = Len(blocks)
    /\ phase \in {"idle", "scanning", "scanFailed"} => Len(applied) <= tip
    /\ phase \in {"scanning", "scanFailed"} => tip <= Len(blocks)
    /\ phase = "popping" => target <= Len(blocks)
    /\ phase = "scanFailed" => target = tip
    /\ phase = "scanDue" /\ target # 0 => Len(applied) <= tip

TypeInv == TypeOK /\ Lengths

\* Nothing was ever trimmed.
Untrimmed == trimTask = "none" /\ trimmed = 0 /\ exact

\* A block and what was applied at its height never differ.
Agree == \A i \in 1..Len(blocks) : i <= Len(applied) => blocks[i] = applied[i]

\* No effects are missing, or those below the height to start from are there.
Flagged ==
    \/ Len(blocks) <= Len(applied)
    \/ /\ scanTable.rescan
       /\ scanTable.height <= Len(applied) + 1
       /\ scanTable.height <= Len(blocks) + 1

\* What else is known while an operation is under way.
Underway ==
    /\ phase \in {"idle", "popping"} => Len(blocks) <= Len(applied)
    /\ phase = "resetting" => scanTable = ScanFrom(0)
    /\ phase \in {"scanning", "scanFailed"} => scanTable.rescan /\ Len(applied) = tip
    /\ phase = "scanDue" =>
          \/ target = 0
          \/ Len(applied) = tip
          \/ scanTable.rescan /\ target = scanTable.height
    /\ phase # "cutting"

Inv == Untrimmed /\ Agree /\ Flagged /\ Underway

\* A node that is configured not to trim, and that nobody asks to.
NeverTrims == ~TrimTables /\ Spec /\ [][NoTrims]_vars

-----------------------------------------------------------------------------
(* What the helpers do to a chain. *)

LEMMA Prefix ==
    ASSUME NEW s \in Seq(Block), NEW n \in Nat, n <= Len(s)
    PROVE  /\ SubSeq(s, 1, n) \in Seq(Block)
           /\ Len(SubSeq(s, 1, n)) = n
           /\ \A i \in 1..n : SubSeq(s, 1, n)[i] = s[i]
<1>1. \A i \in 1..n : s[i] \in Block
  BY ElementOfSeq
<1>2. /\ SubSeq(s, 1, n) \in Seq(Block)
      /\ Len(SubSeq(s, 1, n)) = IF 1 <= n THEN n - 1 + 1 ELSE 0
      /\ \A i \in 1..n - 1 + 1 : SubSeq(s, 1, n)[i] = s[1 + i - 1]
  BY <1>1, SubSeqProperties
<1> QED
  BY <1>2

LEMMA Dropped ==
    ASSUME NEW s \in Seq(Block), Len(s) > 0
    PROVE  /\ DropLast(s) \in Seq(Block)
           /\ Len(DropLast(s)) = Len(s) - 1
           /\ \A i \in 1..Len(s) - 1 : DropLast(s)[i] = s[i]
<1>1. Len(s) - 1 \in Nat /\ Len(s) - 1 <= Len(s)
  BY LenProperties
<1> QED
  BY <1>1, Prefix DEF DropLast

LEMMA RolledBack ==
    ASSUME TypeOK, NEW h \in Nat, RollbackTables(h)
    PROVE  /\ applied' \in Seq(Block)
           /\ Len(applied') = IF h < Len(applied) THEN h ELSE Len(applied)
           /\ \A i \in 1..Len(applied') : applied'[i] = applied[i]
           /\ exact' \in BOOLEAN
           /\ exact /\ trimmed <= 1 => exact'
<1>1. applied \in Seq(Block) /\ exact \in BOOLEAN /\ trimmed \in Int
  BY DEF TypeOK, Heights
<1>2. exact' \in BOOLEAN /\ (exact /\ trimmed <= 1 => exact')
  BY <1>1 DEF RollbackTables
<1>3. CASE h < Len(applied)
  <2>1. applied' = SubSeq(applied, 1, h)
    BY <1>3 DEF RollbackTables
  <2>2. h <= Len(applied)
    BY <1>1, <1>3, LenProperties
  <2> QED
    BY <1>1, <1>2, <1>3, <2>1, <2>2, Prefix
<1>4. CASE ~ (h < Len(applied))
  BY <1>1, <1>2, <1>4 DEF RollbackTables
<1> QED
  BY <1>3, <1>4

LEMMA TrimHeights ==
    ASSUME TypeOK
    PROVE  /\ \A h \in Heights : TrimHeight(h) \in Heights
           /\ \A g, h \in Heights : Larger(g, h) \in Heights
           /\ MinRollbackHeight \in Heights
BY ConfigurationAssumption DEF TrimHeight, Larger, MinRollbackHeight, TypeOK, Heights

-----------------------------------------------------------------------------
(* The types of the variables. *)

LEMMA InitType == Init => TypeInv
<1> SUFFICES ASSUME Init PROVE TypeInv
  OBVIOUS
<1>1. <<>> \in Seq(Block) /\ Len(<<>>) = 0
  BY EmptySeq
<1> QED
  BY <1>1, ConfigurationAssumption
     DEF Init, TypeInv, TypeOK, Lengths, Heights, Phases, NoScan

LEMMA PushType ==
    ASSUME TypeInv, NEW b \in Block, PushBlock(b)
    PROVE  TypeInv'
<1>1. /\ blocks \in Seq(Block) /\ applied \in Seq(Block)
      /\ Len(blocks) \in Nat /\ Len(applied) \in Nat
  BY LenProperties DEF TypeInv, TypeOK
<1>2. /\ blocks' \in Seq(Block) /\ Len(blocks') = Len(blocks) + 1
      /\ applied' \in Seq(Block) /\ Len(applied') = Len(applied) + 1
  BY <1>1, AppendProperties DEF PushBlock
<1>3. trimTask' \in {"none", "queued", "trimming"}
  BY DEF PushBlock, QueueTrim, TypeInv, TypeOK
<1> QED
  BY <1>1, <1>2, <1>3, ConfigurationAssumption
     DEF PushBlock, TypeInv, TypeOK, Lengths, Heights

LEMMA PopType ==
    ASSUME TypeInv
    PROVE  \/ \E h \in Heights : PopOffTo(h)
           \/ PopLastBlock \/ PoppedOff \/ PopOffFails
           \/ CutBlock \/ Cut \/ FullReset \/ DeleteAll
           => TypeInv'
<1> USE ConfigurationAssumption
<1>1. /\ blocks \in Seq(Block) /\ applied \in Seq(Block)
      /\ Len(blocks) \in Nat /\ Len(applied) \in Nat
      /\ tip \in Nat /\ target \in Nat
  BY LenProperties DEF TypeInv, TypeOK, Heights
<1>2. ASSUME NEW h \in Heights, PopOffTo(h) PROVE TypeInv'
  <2>1. /\ phase' \in {"cutting", "popping"}
        /\ scanTable' \in [rescan : BOOLEAN, height : 0..MaxHeight + 2]
    <3>1. \/ phase' = "cutting" /\ scanTable' = ScanFrom(0)
          \/ phase' = "popping" /\ UNCHANGED scanTable
      BY <1>2, Zenon DEF PopOffTo
    <3>2. 0 \in 0..MaxHeight + 2
      OBVIOUS
    <3>3. ScanFrom(0) \in [rescan : BOOLEAN, height : 0..MaxHeight + 2]
      BY <3>2 DEF ScanFrom
    <3>4. scanTable \in [rescan : BOOLEAN, height : 0..MaxHeight + 2]
      BY DEF TypeInv, TypeOK
    <3> QED
      BY <3>1, <3>3, <3>4
  <2> QED
    BY <1>1, <1>2, <2>1 DEF PopOffTo, TypeInv, TypeOK, Lengths, Heights, Phases
<1>3. ASSUME PopLastBlock \/ CutBlock PROVE TypeInv'
  <2>1. Len(blocks) > 0 /\ blocks' = DropLast(blocks)
    BY <1>1, <1>3 DEF PopLastBlock, CutBlock
  <2>2. blocks' \in Seq(Block) /\ Len(blocks') = Len(blocks) - 1
    BY <1>1, <2>1, Dropped
  <2>3. CASE PopLastBlock
    BY <1>1, <2>2, <2>3 DEF PopLastBlock, TypeInv, TypeOK, Lengths, Heights, Phases
  <2>4. CASE CutBlock
    BY <1>1, <2>2, <2>4 DEF CutBlock, TypeInv, TypeOK, Lengths, Heights, Phases
  <2> QED
    BY <1>3, <2>3, <2>4
<1>4. ASSUME PoppedOff PROVE TypeInv'
  <2>1. /\ applied' \in Seq(Block) /\ exact' \in BOOLEAN
        /\ Len(applied') = IF target < Len(applied) THEN target ELSE Len(applied)
    BY <1>1, <1>4, RolledBack DEF PoppedOff, TypeInv
  <2> QED
    BY <1>1, <1>4, <2>1 DEF PoppedOff, TypeInv, TypeOK, Lengths, Heights, Phases
<1>5. ASSUME PopOffFails PROVE TypeInv'
  BY <1>1, <1>5 DEF PopOffFails, durable, TypeInv, TypeOK, Lengths, Heights, Phases
<1>6. ASSUME Cut PROVE TypeInv'
  BY <1>1, <1>6 DEF Cut, durable, TypeInv, TypeOK, Lengths, Heights, Phases
<1>7. ASSUME FullReset PROVE TypeInv'
  BY <1>1, <1>7 DEF FullReset, ScanFrom, TypeInv, TypeOK, Lengths, Heights, Phases
<1>8. ASSUME DeleteAll PROVE TypeInv'
  <2>1. <<>> \in Seq(Block) /\ Len(<<>>) = 0
    BY EmptySeq
  <2> QED
    BY <1>1, <1>8, <2>1 DEF DeleteAll, TypeInv, TypeOK, Lengths, Heights, Phases
<1> QED
  BY <1>2, <1>3, <1>4, <1>5, <1>6, <1>7, <1>8

LEMMA ScanType ==
    ASSUME TypeInv
    PROVE  \/ \E h \in 0..MaxHeight + 2 : RequestScan(h)
           \/ NoScanNeeded \/ BeginFullScan \/ BeginPartialScan \/ ScanThrows
           \/ ScanBlock \/ ScanFails \/ DropUnscanned \/ ScanAborted \/ ScanDone
           => TypeInv'
<1> USE ConfigurationAssumption
<1>1. /\ blocks \in Seq(Block) /\ applied \in Seq(Block)
      /\ Len(blocks) \in Nat /\ Len(applied) \in Nat
      /\ tip \in Nat /\ target \in Nat
  BY LenProperties DEF TypeInv, TypeOK, Heights
<1>2. ASSUME NEW h \in 0..MaxHeight + 2, RequestScan(h) PROVE TypeInv'
  BY <1>1, <1>2 DEF RequestScan, durable, TypeInv, TypeOK, Lengths, Heights, Phases
<1>3. ASSUME NoScanNeeded PROVE TypeInv'
  BY <1>1, <1>3 DEF NoScanNeeded, NoScan, TypeInv, TypeOK, Lengths, Heights, Phases
<1>4. ASSUME BeginFullScan PROVE TypeInv'
  <2>1. <<>> \in Seq(Block) /\ Len(<<>>) = 0
    BY EmptySeq
  <2> QED
    BY <1>1, <1>4, <2>1 DEF BeginFullScan, ScanFrom, TypeInv, TypeOK, Lengths, Heights, Phases
<1>5. ASSUME BeginPartialScan PROVE TypeInv'
  <2>1. target >= 1 /\ target <= tip
    BY <1>1, <1>5, TrimHeights DEF BeginPartialScan, Larger, Heights, TypeInv
  <2>2. target - 1 \in Nat
    BY <1>1, <2>1
  <2>3. /\ applied' \in Seq(Block) /\ exact' \in BOOLEAN
        /\ Len(applied') = IF target - 1 < Len(applied) THEN target - 1 ELSE Len(applied)
    BY <1>5, <2>2, RolledBack DEF BeginPartialScan, TypeInv
  <2> QED
    BY <1>1, <1>5, <2>1, <2>3
       DEF BeginPartialScan, ScanFrom, TypeInv, TypeOK, Lengths, Heights, Phases
<1>6. ASSUME ScanBlock PROVE TypeInv'
  <2>1. blocks[tip + 1] \in Block
    BY <1>1, <1>6, ElementOfSeq DEF ScanBlock
  <2>2. applied' \in Seq(Block) /\ Len(applied') = Len(applied) + 1
    BY <1>1, <1>6, <2>1, AppendProperties DEF ScanBlock
  <2>3. tip' \in Heights /\ Len(applied') <= tip' /\ tip' <= Len(blocks) /\ Len(blocks) <= MaxHeight
    BY <1>1, <1>6, <2>2 DEF ScanBlock, TypeInv, TypeOK, Lengths, Heights
  <2>4. lastTrimHeight' \in Heights /\ trimmed' \in Heights
    BY <1>6, <2>3, TrimHeights DEF ScanBlock, TypeInv, TypeOK
  <2> QED
    BY <1>1, <1>6, <2>2, <2>3, <2>4 DEF ScanBlock, TypeInv, TypeOK, Lengths, Heights, Phases
<1>7. ASSUME ScanFails PROVE TypeInv'
  BY <1>1, <1>7 DEF ScanFails, durable, TypeInv, TypeOK, Lengths, Heights, Phases
<1>8. ASSUME DropUnscanned PROVE TypeInv'
  <2>0. Len(blocks) > 0 /\ blocks' = DropLast(blocks)
    BY <1>1, <1>8 DEF DropUnscanned
  <2>1. blocks' \in Seq(Block) /\ Len(blocks') = Len(blocks) - 1
    BY <1>1, <2>0, Dropped
  <2> QED
    BY <1>1, <1>8, <2>1 DEF DropUnscanned, TypeInv, TypeOK, Lengths, Heights, Phases
<1>9. ASSUME ScanAborted PROVE TypeInv'
  <2>1. CASE tip < MinRollbackHeight
    BY <1>1, <1>9, <2>1 DEF ScanAborted, TypeInv, TypeOK, Lengths, Heights, Phases
  <2>2. CASE ~ (tip < MinRollbackHeight)
    <3>0. RollbackTables(tip) /\ phase' = "idle" /\ scanTable' = NoScan /\ target' = target
      BY <1>9, <2>2, Zenon DEF ScanAborted
    <3>1. /\ applied' \in Seq(Block) /\ exact' \in BOOLEAN
          /\ Len(applied') = IF tip < Len(applied) THEN tip ELSE Len(applied)
      BY <1>1, <3>0, RolledBack DEF TypeInv
    <3> QED
      BY <1>1, <1>9, <3>0, <3>1
         DEF ScanAborted, NoScan, TypeInv, TypeOK, Lengths, Heights, Phases
  <2> QED
    BY <2>1, <2>2
<1>10. ASSUME ScanDone PROVE TypeInv'
  BY <1>1, <1>10 DEF ScanDone, NoScan, TypeInv, TypeOK, Lengths, Heights, Phases
<1>11. ASSUME ScanThrows PROVE TypeInv'
  <2>1. /\ applied' \in Seq(Block) /\ exact' \in BOOLEAN
        /\ Len(applied') = IF tip < Len(applied) THEN tip ELSE Len(applied)
    BY <1>1, <1>11, RolledBack DEF ScanThrows, TypeInv
  <2> QED
    BY <1>1, <1>11, <2>1 DEF ScanThrows, ScanFrom, TypeInv, TypeOK, Lengths, Heights, Phases
<1> QED
  BY <1>2, <1>3, <1>4, <1>5, <1>6, <1>7, <1>8, <1>9, <1>10, <1>11

LEMMA OtherType ==
    ASSUME TypeInv
    PROVE  \/ RequestTrim \/ StartTrim \/ Trim \/ Crash \/ RestartFails
           \/ \E force \in BOOLEAN : Restart(force)
           => TypeInv'
<1> USE ConfigurationAssumption
<1>1. /\ blocks \in Seq(Block) /\ applied \in Seq(Block)
      /\ Len(blocks) \in Nat /\ Len(applied) \in Nat
      /\ tip \in Nat /\ target \in Nat
  BY LenProperties DEF TypeInv, TypeOK, Heights
<1>2. ASSUME RequestTrim PROVE TypeInv'
  BY <1>2 DEF RequestTrim, durable, TypeInv, TypeOK, Lengths
<1>3. ASSUME StartTrim PROVE TypeInv'
  <2>1. lastTrimHeight' \in Heights
    BY <1>3, TrimHeights DEF StartTrim, TypeInv, TypeOK
  <2> QED
    BY <1>3, <2>1 DEF StartTrim, durable, TypeInv, TypeOK, Lengths
<1>4. ASSUME Trim PROVE TypeInv'
  <2>1. trimmed' \in Heights
    BY <1>4, TrimHeights DEF Trim, TypeInv, TypeOK
  <2> QED
    BY <1>4, <2>1 DEF Trim, TypeInv, TypeOK, Lengths
<1>5. ASSUME Crash PROVE TypeInv'
  BY <1>5 DEF Crash, durable, TypeInv, TypeOK, Lengths, Heights, Phases
<1>6. ASSUME NEW force \in BOOLEAN, Restart(force) PROVE TypeInv'
  <2>1. /\ applied' \in Seq(Block) /\ exact' \in BOOLEAN
        /\ Len(applied') = IF Len(blocks) < Len(applied) THEN Len(blocks) ELSE Len(applied)
    BY <1>1, <1>6, RolledBack DEF Restart, TypeInv
  <2>2. target' \in 0..MaxHeight + 2
    BY <1>6 DEF Restart, TypeInv, TypeOK
  <2> QED
    BY <1>1, <1>6, <2>1, <2>2 DEF Restart, TypeInv, TypeOK, Lengths, Heights, Phases
<1>7. ASSUME RestartFails PROVE TypeInv'
  <2>1. /\ applied' \in Seq(Block) /\ exact' \in BOOLEAN
        /\ Len(applied') = IF Len(blocks) < Len(applied) THEN Len(blocks) ELSE Len(applied)
    BY <1>1, <1>7, RolledBack DEF RestartFails, TypeInv
  <2> QED
    BY <1>1, <1>7, <2>1 DEF RestartFails, memory, TypeInv, TypeOK, Lengths, Heights, Phases
<1> QED
  BY <1>2, <1>3, <1>4, <1>5, <1>6, <1>7

LEMMA TypeStep == TypeInv /\ [Next]_vars => TypeInv'
<1> SUFFICES ASSUME TypeInv, [Next]_vars PROVE TypeInv'
  OBVIOUS
<1>1. CASE UNCHANGED vars
  BY <1>1 DEF vars, durable, memory, TypeInv, TypeOK, Lengths
<1> QED
  BY <1>1, PushType, PopType, ScanType, OtherType DEF Next, Proceed

LEMMA TypeInvariance == Spec => []TypeInv
BY InitType, TypeStep, PTL DEF Spec

\* The variables keep their types in every behaviour, with trims and crashes.
THEOREM TypeCorrect == Spec => []TypeOK
<1>1. TypeInv => TypeOK
  BY DEF TypeInv
<1> QED
  BY <1>1, TypeInvariance, PTL

-----------------------------------------------------------------------------
(* Tables and blocks match on a node that never trims. *)

\* What follows from the invariant about any state, stated once.
LEMMA Known ==
    ASSUME TypeInv
    PROVE  /\ blocks \in Seq(Block) /\ applied \in Seq(Block)
           /\ Len(blocks) \in Nat /\ Len(applied) \in Nat
           /\ tip \in Nat /\ target \in Nat /\ scanTable.height \in Nat
           /\ scanTable.rescan \in BOOLEAN
BY LenProperties DEF TypeInv, TypeOK, Heights

LEMMA Untouched == ~TrimTables => MinRollbackHeight = 0
BY DEF MinRollbackHeight

LEMMA Equal ==
    ASSUME TypeInv, Agree, Len(blocks) = Len(applied)
    PROVE  applied = blocks
<1>1. /\ blocks \in Seq(Block) /\ applied \in Seq(Block)
      /\ Len(blocks) \in Nat
  BY Known
<1>2. \A i \in 1..Len(applied) : applied[i] = blocks[i]
  BY <1>1 DEF Agree
<1> QED
  BY <1>1, <1>2, SeqEqual

LEMMA InitInv == Init => Inv
<1> SUFFICES ASSUME Init PROVE Inv
  OBVIOUS
<1>1. Len(<<>>) = 0
  OBVIOUS
<1> QED
  BY <1>1 DEF Init, Inv, Untrimmed, Agree, Flagged, Underway, NoScan

LEMMA PushInv ==
    ASSUME TypeInv, Inv, ~TrimTables, NEW b \in Block, PushBlock(b)
    PROVE  Inv'
<1>1. /\ blocks \in Seq(Block) /\ applied \in Seq(Block)
      /\ Len(blocks) \in Nat /\ Len(applied) \in Nat
  BY Known
<1>2. Len(blocks) = Len(applied) /\ tip = Len(blocks)
  BY <1>1 DEF PushBlock, TypeInv, Lengths, Inv, Flagged, Underway
<1>3. /\ Len(blocks') = Len(blocks) + 1 /\ Len(applied') = Len(applied) + 1
      /\ blocks'[Len(blocks) + 1] = b /\ applied'[Len(applied) + 1] = b
      /\ \A i \in 1..Len(blocks) : blocks'[i] = blocks[i] /\ applied'[i] = applied[i]
  BY <1>1, <1>2, AppendProperties DEF PushBlock
<1>4. Untrimmed'
  BY DEF PushBlock, QueueTrim, Inv, Untrimmed
<1>5. Agree'
  <2> SUFFICES ASSUME NEW i \in 1..Len(blocks') PROVE blocks'[i] = applied'[i]
    BY DEF Agree
  <2>1. CASE i = Len(blocks) + 1
    BY <1>2, <1>3, <2>1
  <2>2. CASE i \in 1..Len(blocks)
    BY <1>1, <1>2, <1>3, <2>2 DEF Inv, Agree
  <2> QED
    BY <1>1, <1>3, <2>1, <2>2
<1>6. Flagged' /\ Underway'
  BY <1>1, <1>2, <1>3 DEF PushBlock, Flagged, Underway
<1> QED
  BY <1>4, <1>5, <1>6 DEF Inv

LEMMA PopInv ==
    ASSUME TypeInv, Inv, ~TrimTables
    PROVE  \/ \E h \in Heights : PopOffTo(h)
           \/ PopLastBlock \/ PoppedOff \/ PopOffFails
           \/ CutBlock \/ Cut \/ FullReset \/ DeleteAll
           => Inv'
<1>1. /\ blocks \in Seq(Block) /\ applied \in Seq(Block)
      /\ Len(blocks) \in Nat /\ Len(applied) \in Nat
      /\ tip \in Nat /\ target \in Nat /\ scanTable.height \in Nat
  BY Known
<1>2. ASSUME NEW h \in Heights, PopOffTo(h) PROVE Inv'
  <2>1. ~ (h < MinRollbackHeight)
    BY <1>2, Untouched DEF Heights
  <2>2. phase' = "popping" /\ UNCHANGED <<blocks, applied, trimmed, exact, scanTable, trimTask>>
    BY <1>2, <2>1, Zenon DEF PopOffTo
  <2>3. phase = "idle"
    BY <1>2 DEF PopOffTo
  <2> QED
    BY <2>2, <2>3 DEF Inv, Untrimmed, Agree, Flagged, Underway
<1>3. ASSUME PopLastBlock PROVE Inv'
  <2>1. Len(blocks) > 0 /\ blocks' = DropLast(blocks)
    BY <1>1, <1>3 DEF PopLastBlock
  <2>2. Len(blocks') = Len(blocks) - 1 /\ \A i \in 1..Len(blocks) - 1 : blocks'[i] = blocks[i]
    BY <1>1, <2>1, Dropped
  <2>3. Agree'
    BY <1>1, <1>3, <2>2 DEF PopLastBlock, Inv, Agree
  <2>4. Flagged' /\ Underway'
    BY <1>1, <1>3, <2>2 DEF PopLastBlock, Inv, Flagged, Underway
  <2>5. Untrimmed'
    BY <1>3 DEF PopLastBlock, Inv, Untrimmed
  <2> QED
    BY <2>3, <2>4, <2>5 DEF Inv
<1>4. ASSUME PoppedOff PROVE Inv'
  <2>1. /\ Len(applied') = IF target < Len(applied) THEN target ELSE Len(applied)
        /\ \A i \in 1..Len(applied') : applied'[i] = applied[i]
        /\ exact'
    <3>1. RollbackTables(target) /\ exact /\ trimmed <= 1
      BY <1>4 DEF PoppedOff, Inv, Untrimmed
    <3> QED
      BY <1>1, <3>1, RolledBack DEF TypeInv
  <2>2. Agree'
    BY <1>1, <1>4, <2>1 DEF PoppedOff, Inv, Agree
  <2>3. Flagged' /\ Underway'
    BY <1>1, <1>4, <2>1 DEF PoppedOff, Inv, Flagged, Underway
  <2>4. Untrimmed'
    BY <1>4, <2>1 DEF PoppedOff, Inv, Untrimmed
  <2> QED
    BY <2>2, <2>3, <2>4 DEF Inv
<1>5. ASSUME PopOffFails PROVE Inv'
  BY <1>5 DEF PopOffFails, durable, Inv, Untrimmed, Agree, Flagged, Underway
<1>6. ASSUME CutBlock \/ Cut PROVE Inv'
  BY <1>6 DEF CutBlock, Cut, Inv, Underway
<1>7. ASSUME FullReset PROVE Inv'
  BY <1>1, <1>7 DEF FullReset, ScanFrom, Inv, Untrimmed, Agree, Flagged, Underway
<1>8. ASSUME DeleteAll PROVE Inv'
  <2>1. Len(<<>>) = 0
    OBVIOUS
  <2>2. scanTable = ScanFrom(0)
    BY <1>8 DEF DeleteAll, Inv, Underway
  <2> QED
    BY <1>1, <1>8, <2>1, <2>2
       DEF DeleteAll, ScanFrom, Inv, Untrimmed, Agree, Flagged, Underway
<1> QED
  BY <1>2, <1>3, <1>4, <1>5, <1>6, <1>7, <1>8

LEMMA OtherInv ==
    ASSUME TypeInv, Inv, ~TrimTables, NoTrims
    PROVE  \/ RequestTrim \/ StartTrim \/ Trim \/ Crash \/ RestartFails
           \/ \E force \in BOOLEAN : Restart(force)
           => Inv'
<1>1. /\ blocks \in Seq(Block) /\ applied \in Seq(Block)
      /\ Len(blocks) \in Nat /\ Len(applied) \in Nat
      /\ tip \in Nat /\ scanTable.height \in Nat
  BY Known
<1>2. ASSUME RequestTrim \/ StartTrim \/ Trim PROVE Inv'
  BY <1>2 DEF RequestTrim, StartTrim, Trim, NoTrims, Inv, Untrimmed
<1>3. ASSUME Crash PROVE Inv'
  BY <1>3 DEF Crash, durable, Inv, Untrimmed, Agree, Flagged, Underway
<1>4. ASSUME NEW force \in BOOLEAN, Restart(force) PROVE Inv'
  <2>1. /\ Len(applied') = IF Len(blocks) < Len(applied) THEN Len(blocks) ELSE Len(applied)
        /\ \A i \in 1..Len(applied') : applied'[i] = applied[i]
        /\ exact'
    <3>1. RollbackTables(Len(blocks)) /\ exact /\ trimmed <= 1
      BY <1>4 DEF Restart, Inv, Untrimmed
    <3> QED
      BY <1>1, <3>1, RolledBack DEF TypeInv
  <2>2. Agree'
    BY <1>1, <1>4, <2>1 DEF Restart, Inv, Agree
  <2>3. Untrimmed'
    BY <1>4, <2>1 DEF Restart, Inv, Untrimmed
  <2>4. Flagged'
    BY <1>1, <1>4, <2>1 DEF Restart, Inv, Flagged
  <2>5. Underway'
    BY <1>1, <1>4, <2>1 DEF Restart, Inv, Flagged, Underway
  <2> QED
    BY <2>2, <2>3, <2>4, <2>5 DEF Inv
<1>5. ASSUME RestartFails PROVE Inv'
  <2>1. /\ Len(applied') = IF Len(blocks) < Len(applied) THEN Len(blocks) ELSE Len(applied)
        /\ \A i \in 1..Len(applied') : applied'[i] = applied[i]
        /\ exact'
    <3>1. RollbackTables(Len(blocks)) /\ exact /\ trimmed <= 1
      BY <1>5 DEF RestartFails, Inv, Untrimmed
    <3> QED
      BY <1>1, <3>1, RolledBack DEF TypeInv
  <2>2. Agree'
    BY <1>1, <1>5, <2>1 DEF RestartFails, Inv, Agree
  <2>3. Untrimmed' /\ Underway'
    BY <1>5, <2>1 DEF RestartFails, memory, Inv, Untrimmed, Underway
  <2>4. Flagged'
    BY <1>1, <1>5, <2>1 DEF RestartFails, Inv, Flagged
  <2> QED
    BY <2>2, <2>3, <2>4 DEF Inv
<1> QED
  BY <1>2, <1>3, <1>4, <1>5

LEMMA ScanInv ==
    ASSUME TypeInv, Inv, ~TrimTables
    PROVE  \/ \E h \in 0..MaxHeight + 2 : RequestScan(h)
           \/ NoScanNeeded \/ BeginFullScan \/ BeginPartialScan \/ ScanThrows
           \/ ScanBlock \/ ScanFails \/ DropUnscanned \/ ScanAborted \/ ScanDone
           => Inv'
<1>1. /\ blocks \in Seq(Block) /\ applied \in Seq(Block)
      /\ Len(blocks) \in Nat /\ Len(applied) \in Nat
      /\ tip \in Nat /\ target \in Nat /\ scanTable.height \in Nat
      /\ scanTable.rescan \in BOOLEAN
  BY Known
<1>2. ASSUME NEW h \in 0..MaxHeight + 2, RequestScan(h) PROVE Inv'
  <2>1. Len(applied) = tip
    BY <1>1, <1>2 DEF RequestScan, TypeInv, Lengths, Inv, Flagged, Underway
  <2> QED
    BY <1>2, <2>1 DEF RequestScan, durable, Inv, Untrimmed, Agree, Flagged, Underway
<1>3. ASSUME NoScanNeeded PROVE Inv'
  <2>1. Len(blocks) <= Len(applied)
    BY <1>1, <1>3 DEF NoScanNeeded, TypeInv, Lengths, Inv, Flagged, Underway
  <2> QED
    BY <1>3, <2>1 DEF NoScanNeeded, NoScan, Inv, Untrimmed, Agree, Flagged, Underway
<1>4. ASSUME BeginFullScan PROVE Inv'
  <2>1. target = 0
    BY <1>1, <1>4, Untouched DEF BeginFullScan
  <2>2. Len(<<>>) = 0
    OBVIOUS
  <2> QED
    BY <1>1, <1>4, <2>1, <2>2
       DEF BeginFullScan, ScanFrom, Inv, Untrimmed, Agree, Flagged, Underway
<1>5. ASSUME BeginPartialScan PROVE Inv'
  <2>1. target >= 1 /\ target <= tip /\ target - 1 \in Nat
    BY <1>1, <1>5, Untouched DEF BeginPartialScan, Larger
  <2>2. target <= Len(applied) + 1
    BY <1>1, <1>5, <2>1 DEF BeginPartialScan, TypeInv, Lengths, Inv, Flagged, Underway
  <2>3. /\ Len(applied') = target - 1
        /\ \A i \in 1..Len(applied') : applied'[i] = applied[i]
        /\ exact'
    <3>1. RollbackTables(target - 1) /\ exact /\ trimmed <= 1
      BY <1>5 DEF BeginPartialScan, Inv, Untrimmed
    <3> QED
      BY <1>1, <2>1, <2>2, <3>1, RolledBack DEF TypeInv
  <2>4. tip = Len(blocks) /\ scanTable' = ScanFrom(target)
    BY <1>5 DEF BeginPartialScan, TypeInv, Lengths
  <2>5. Agree'
    BY <1>1, <1>5, <2>1, <2>2, <2>3 DEF BeginPartialScan, Inv, Agree
  <2>6. Flagged' /\ Underway'
    BY <1>1, <1>5, <2>1, <2>3, <2>4 DEF BeginPartialScan, ScanFrom, Inv, Flagged, Underway
  <2>7. Untrimmed'
    BY <1>5, <2>3 DEF BeginPartialScan, Inv, Untrimmed
  <2> QED
    BY <2>5, <2>6, <2>7 DEF Inv
<1>6. ASSUME ScanBlock PROVE Inv'
  <2>1. Len(applied) = tip /\ scanTable.rescan /\ tip < Len(blocks)
    BY <1>6 DEF ScanBlock, Inv, Underway
  <2>2. blocks[tip + 1] \in Block
    BY <1>1, <2>1, ElementOfSeq
  <2>3. /\ Len(applied') = tip + 1
        /\ applied'[tip + 1] = blocks[tip + 1]
        /\ \A i \in 1..tip : applied'[i] = applied[i]
    BY <1>1, <1>6, <2>1, <2>2, AppendProperties DEF ScanBlock
  <2>4. trimmed' = trimmed
    BY <1>6, Zenon DEF ScanBlock
  <2>5. Agree'
    <3> SUFFICES ASSUME NEW i \in 1..Len(blocks), i <= tip + 1 PROVE blocks[i] = applied'[i]
      BY <1>6, <2>3 DEF ScanBlock, Agree
    <3>1. CASE i = tip + 1
      BY <2>3, <3>1
    <3>2. CASE i \in 1..tip
      BY <1>1, <2>1, <2>3, <3>2 DEF Inv, Agree
    <3> QED
      BY <1>1, <3>1, <3>2
  <2>6. Flagged' /\ Underway'
    BY <1>1, <1>6, <2>1, <2>3 DEF ScanBlock, Inv, Flagged, Underway
  <2>7. Untrimmed'
    BY <1>6, <2>4 DEF ScanBlock, Inv, Untrimmed
  <2> QED
    BY <2>5, <2>6, <2>7 DEF Inv
<1>7. ASSUME ScanFails PROVE Inv'
  BY <1>7 DEF ScanFails, durable, Inv, Untrimmed, Agree, Flagged, Underway
<1>8. ASSUME DropUnscanned PROVE Inv'
  <2>1. Len(blocks) > tip /\ Len(blocks) > 0 /\ blocks' = DropLast(blocks)
    BY <1>1, <1>8 DEF DropUnscanned, TypeInv, Lengths
  <2>2. Len(blocks') = Len(blocks) - 1 /\ \A i \in 1..Len(blocks) - 1 : blocks'[i] = blocks[i]
    BY <1>1, <2>1, Dropped
  <2>3. Agree'
    <3>1. Agree /\ applied' = applied /\ Len(blocks) \in Nat
      BY <1>1, <1>8 DEF DropUnscanned, Inv, TypeInv
    <3> QED
      BY <2>2, <3>1 DEF Agree
  <2>4. Flagged' /\ Underway'
    BY <1>1, <1>8, <2>1, <2>2 DEF DropUnscanned, Inv, Flagged, Underway
  <2>5. Untrimmed'
    BY <1>8 DEF DropUnscanned, Inv, Untrimmed
  <2> QED
    BY <2>3, <2>4, <2>5 DEF Inv
<1>9. ASSUME ScanAborted PROVE Inv'
  <2>1. /\ Len(applied) = tip /\ Len(blocks) = tip
        /\ exact /\ trimmed <= 1
    BY <1>9 DEF ScanAborted, TypeInv, Lengths, Inv, Untrimmed, Underway
  <2>2. /\ RollbackTables(tip) /\ phase' = "idle" /\ scanTable' = NoScan
        /\ UNCHANGED <<blocks, trimmed, trimTask>>
    <3>1. ~ (tip < MinRollbackHeight)
      BY <1>1, Untouched
    <3> QED
      BY <1>9, <3>1, Zenon DEF ScanAborted
  <2>3. exact'
    BY <1>1, <2>1, <2>2, RolledBack DEF TypeInv
  <2>4. applied' = applied
    <3>1. ~ (tip < Len(applied))
      BY <1>1, <2>1
    <3> QED
      BY <2>2, <3>1, Zenon DEF RollbackTables
  <2> QED
    BY <1>1, <2>1, <2>2, <2>3, <2>4 DEF NoScan, Inv, Untrimmed, Agree, Flagged, Underway
<1>10. ASSUME ScanDone PROVE Inv'
  <2>1. Len(applied) = tip /\ Len(blocks) = tip
    BY <1>10 DEF ScanDone, Inv, Underway
  <2> QED
    BY <1>1, <1>10, <2>1 DEF ScanDone, NoScan, Inv, Untrimmed, Agree, Flagged, Underway
<1>11. ASSUME ScanThrows PROVE Inv'
  <2>1. Len(applied) = tip /\ Len(blocks) = tip
    BY <1>1, <1>11 DEF ScanThrows, TypeInv, Lengths, Inv, Flagged, Underway
  <2>2. RollbackTables(tip) /\ exact /\ trimmed <= 1
    BY <1>11 DEF ScanThrows, Inv, Untrimmed
  <2>3. /\ Len(applied') = tip
        /\ \A i \in 1..Len(applied') : applied'[i] = applied[i]
        /\ exact'
    BY <1>1, <2>1, <2>2, RolledBack DEF TypeInv
  <2>4. Agree'
    BY <1>1, <1>11, <2>1, <2>3 DEF ScanThrows, Inv, Agree
  <2>5. Untrimmed' /\ Flagged' /\ Underway'
    BY <1>1, <1>11, <2>1, <2>3 DEF ScanThrows, Inv, Untrimmed, Flagged, Underway
  <2> QED
    BY <2>4, <2>5 DEF Inv
<1> QED
  BY <1>2, <1>3, <1>4, <1>5, <1>6, <1>7, <1>8, <1>9, <1>10, <1>11

LEMMA InvStep == ~TrimTables /\ TypeInv /\ Inv /\ [Next]_vars /\ [NoTrims]_vars => Inv'
<1> SUFFICES ASSUME ~TrimTables, TypeInv, Inv, [Next]_vars, [NoTrims]_vars PROVE Inv'
  OBVIOUS
<1>1. CASE UNCHANGED vars
  BY <1>1 DEF vars, durable, memory, Inv, Untrimmed, Agree, Flagged, Underway
<1>2. CASE Next /\ NoTrims
  BY <1>2, PushInv, PopInv, ScanInv, OtherInv DEF Next, Proceed
<1> QED
  BY <1>1, <1>2

LEMMA Invariance == NeverTrims => [](TypeInv /\ Inv)
<1> SUFFICES ASSUME ~TrimTables PROVE Spec /\ [][NoTrims]_vars => [](TypeInv /\ Inv)
  BY DEF NeverTrims
<1>1. TypeInv /\ Inv /\ [Next]_vars /\ [NoTrims]_vars => Inv'
  BY InvStep
<1> QED
  BY <1>1, InitInv, TypeInvariance, PTL DEF Spec

LEMMA Matching == TypeInv /\ Inv => Consistent
<1> SUFFICES ASSUME TypeInv, Inv, phase = "idle"
             PROVE  applied = blocks /\ exact /\ tip = Len(blocks)
  BY DEF Consistent
<1>1. tip = Len(blocks) /\ exact
  BY DEF TypeInv, Lengths, Inv, Untrimmed
<1>2. Len(blocks) = Len(applied)
  BY <1>1, Known DEF TypeInv, Lengths, Inv, Underway
<1>3. applied = blocks
  BY <1>2, Equal DEF Inv
<1> QED
  BY <1>1, <1>3

LEMMA Clearing ==
    ASSUME Next, scanTable.rescan, ~scanTable'.rescan
    PROVE  phase' = "idle"
<1>1. ASSUME NEW b \in Block, PushBlock(b) PROVE FALSE
  BY <1>1 DEF PushBlock
<1>2. ASSUME NEW h \in Heights, PopOffTo(h) PROVE FALSE
  <2>1. scanTable' = ScanFrom(0) \/ scanTable' = scanTable
    BY <1>2, Zenon DEF PopOffTo
  <2> QED
    BY <2>1 DEF ScanFrom
<1>3. ASSUME \/ PopLastBlock \/ PoppedOff \/ PopOffFails
             \/ CutBlock \/ Cut \/ FullReset \/ DeleteAll
      PROVE  FALSE
  BY <1>3 DEF PopLastBlock, PoppedOff, PopOffFails, CutBlock, Cut, FullReset, DeleteAll,
              durable, ScanFrom
<1>4. ASSUME \/ \E h \in 0..MaxHeight + 2 : RequestScan(h)
             \/ BeginFullScan \/ BeginPartialScan \/ ScanThrows \/ ScanFails \/ DropUnscanned
      PROVE  FALSE
  BY <1>4 DEF RequestScan, BeginFullScan, BeginPartialScan, ScanThrows, ScanFails, DropUnscanned,
              durable, ScanFrom
<1>5. ASSUME ScanBlock PROVE FALSE
  <2>1. scanTable' = scanTable
    BY <1>5, Zenon DEF ScanBlock
  <2> QED
    BY <2>1
<1>6. ASSUME NoScanNeeded \/ ScanDone PROVE phase' = "idle"
  BY <1>6 DEF NoScanNeeded, ScanDone
<1>7. ASSUME ScanAborted PROVE phase' = "idle"
  <2>1. scanTable' = scanTable \/ phase' = "idle"
    BY <1>7, Zenon DEF ScanAborted
  <2> QED
    BY <2>1
<1>8. ASSUME \/ RequestTrim \/ StartTrim \/ Trim \/ Crash \/ RestartFails
             \/ \E force \in BOOLEAN : Restart(force)
      PROVE  FALSE
  BY <1>8 DEF RequestTrim, StartTrim, Trim, Crash, Restart, RestartFails, durable
<1> QED
  BY <1>1, <1>2, <1>3, <1>4, <1>5, <1>6, <1>7, <1>8 DEF Next, Proceed

\* The tables hold exactly the effects of the blocks in the table whenever the
\* write lock is free, for every chain and whenever the node was killed.
THEOREM ConsistentCorrect == NeverTrims => []Consistent
BY Invariance, Matching, PTL

\* Unless a rescan is flagged, what is on disk can be rolled back to the last
\* block in the table at any commit.
THEOREM RecoverableCorrect == NeverTrims => []Recoverable
<1>1. TypeInv /\ Inv => Recoverable
  <2> SUFFICES ASSUME TypeInv, Inv, ~scanTable.rescan
               PROVE  /\ exact
                      /\ Len(blocks) <= Len(applied)
                      /\ blocks = SubSeq(applied, 1, Len(blocks))
                      /\ Len(blocks) < Len(applied) => trimmed <= Len(blocks) + 1
    BY DEF Recoverable
  <2>1. /\ blocks \in Seq(Block) /\ applied \in Seq(Block)
        /\ Len(blocks) \in Nat /\ Len(applied) \in Nat
    BY Known
  <2>2. Len(blocks) <= Len(applied)
    BY DEF Inv, Flagged
  <2>3. /\ SubSeq(applied, 1, Len(blocks)) \in Seq(Block)
        /\ Len(SubSeq(applied, 1, Len(blocks))) = Len(blocks)
        /\ \A i \in 1..Len(blocks) : blocks[i] = SubSeq(applied, 1, Len(blocks))[i]
    BY <2>1, <2>2, Prefix DEF Inv, Agree
  <2>4. blocks = SubSeq(applied, 1, Len(blocks))
    BY <2>1, <2>3, SeqEqual
  <2> QED
    BY <2>1, <2>2, <2>4 DEF Inv, Untrimmed
<1> QED
  BY <1>1, Invariance, PTL

\* The rescan flag in the database is cleared by no step that leaves the tables
\* short of a block.
THEOREM ScanFlagClearedCorrect == NeverTrims => ScanFlagCleared
<1>1. Consistent' /\ [Next]_vars
      => [scanTable.rescan /\ ~scanTable'.rescan => applied' = blocks']_vars
  <2> SUFFICES ASSUME Consistent', Next, scanTable.rescan, ~scanTable'.rescan
               PROVE  applied' = blocks'
    OBVIOUS
  <2> QED
    BY Clearing DEF Consistent
<1> QED
  BY <1>1, ConsistentCorrect, PTL DEF NeverTrims, Spec, ScanFlagCleared

-----------------------------------------------------------------------------
(* Operations come to an end.                                               *)

\* The blocks that are left when what is under way now has deleted its own.
Survivors == IF phase = "scanFailed" THEN target ELSE Len(blocks)

Stage ==
    CASE phase = "idle" -> 0
      [] phase = "scanning" -> 1
      [] phase = "scanDue" -> 2
      [] phase \in {"popping", "cutting", "resetting", "scanFailed"} -> 3
      [] phase = "down" -> 4

\* The rounds that the loop under way has still to go.
RoundsLeft == Larger(Len(blocks) - (IF phase = "scanning" THEN tip ELSE target), 0)

Nearer ==
    \/ Survivors' < Survivors
    \/ Survivors' = Survivors /\ Stage' < Stage
    \/ Survivors' = Survivors /\ Stage' = Stage /\ RoundsLeft' < RoundsLeft

LEMMA MeasureInNat == TypeInv => Survivors \in Nat /\ Stage \in 0..4 /\ RoundsLeft \in Nat
<1> SUFFICES ASSUME TypeInv PROVE Survivors \in Nat /\ Stage \in 0..4 /\ RoundsLeft \in Nat
  OBVIOUS
<1>1. /\ Len(blocks) \in Nat /\ tip \in Nat /\ target \in Nat /\ phase \in Phases
  BY Known DEF TypeInv, TypeOK
<1> QED
  BY <1>1 DEF Survivors, Stage, RoundsLeft, Larger, Phases

LEMMA PoppingEnds ==
    ASSUME TypeInv,
           PopLastBlock \/ PoppedOff \/ PopOffFails \/ CutBlock \/ Cut \/ DeleteAll
    PROVE  Nearer
<1>1. /\ Len(blocks) \in Nat /\ target \in Nat
      /\ Len(blocks) > 0 => Len(DropLast(blocks)) = Len(blocks) - 1
  BY Known, Dropped DEF TypeInv, TypeOK
<1>2. CASE PopLastBlock
  BY <1>1, <1>2 DEF PopLastBlock, Nearer, Survivors
<1>3. CASE CutBlock
  BY <1>1, <1>3 DEF CutBlock, Nearer, Survivors
<1>4. CASE PoppedOff
  BY <1>1, <1>4 DEF PoppedOff, Nearer, Survivors, Stage
<1>5. CASE PopOffFails
  BY <1>1, <1>5 DEF PopOffFails, durable, Nearer, Survivors, Stage, RoundsLeft, Larger
<1>6. CASE Cut
  BY <1>1, <1>6 DEF Cut, durable, Nearer, Survivors, Stage
<1>7. CASE DeleteAll
  <2>1. Len(blocks') = 0
    BY <1>7 DEF DeleteAll
  <2> QED
    BY <1>1, <1>7, <2>1 DEF DeleteAll, Nearer, Survivors, Stage
<1> QED
  BY <1>2, <1>3, <1>4, <1>5, <1>6, <1>7

LEMMA ScanningEnds ==
    ASSUME TypeInv,
           \/ NoScanNeeded \/ BeginFullScan \/ BeginPartialScan \/ ScanThrows
           \/ ScanBlock \/ ScanFails \/ DropUnscanned \/ ScanAborted \/ ScanDone
           \/ \E force \in BOOLEAN : Restart(force)
    PROVE  Nearer
<1>1. /\ Len(blocks) \in Nat /\ target \in Nat /\ tip \in Nat
      /\ Len(blocks) > 0 => Len(DropLast(blocks)) = Len(blocks) - 1
  BY Known, Dropped DEF TypeInv, TypeOK
<1>2. CASE NoScanNeeded \/ BeginFullScan \/ BeginPartialScan \/ ScanThrows
  <2>1. phase = "scanDue" /\ phase' \in {"idle", "scanning"} /\ blocks' = blocks
    BY <1>2 DEF NoScanNeeded, BeginFullScan, BeginPartialScan, ScanThrows
  <2> QED
    BY <2>1 DEF Nearer, Survivors, Stage
<1>3. CASE ScanBlock
  <2>1. /\ phase = "scanning" /\ phase' = phase /\ blocks' = blocks /\ tip' = tip + 1
        /\ tip < Len(blocks)
    BY <1>3, Zenon DEF ScanBlock
  <2> QED
    BY <1>1, <2>1 DEF Nearer, Survivors, Stage, RoundsLeft, Larger
<1>4. CASE ScanFails
  BY <1>1, <1>4 DEF ScanFails, durable, Nearer, Survivors
<1>5. CASE DropUnscanned
  BY <1>1, <1>5 DEF DropUnscanned, Nearer, Survivors, Stage, RoundsLeft, Larger
<1>6. CASE ScanAborted
  <2>1. phase = "scanFailed" /\ phase' \in {"scanDue", "idle"} /\ blocks' = blocks /\ Len(blocks) = target
    BY <1>6, Zenon DEF ScanAborted
  <2> QED
    BY <2>1 DEF Nearer, Survivors, Stage
<1>7. CASE ScanDone
  BY <1>7 DEF ScanDone, Nearer, Survivors, Stage
<1>8. CASE \E force \in BOOLEAN : Restart(force)
  <2>1. phase = "down" /\ phase' \in {"scanDue", "idle"} /\ blocks' = blocks
    BY <1>8, Zenon DEF Restart
  <2> QED
    BY <2>1 DEF Nearer, Survivors, Stage
<1> QED
  BY <1>2, <1>3, <1>4, <1>5, <1>6, <1>7, <1>8

\* What safety can say for ComesBackUnlessStuck.  Three natural numbers, compared
\* one after the other, get smaller with every step of an operation, and of a
\* restart that does not fail, also with those in which something throws; the
\* trims of the other thread leave them alone.  So there is no way round in a
\* circle: a node that is not killed is idle again after finitely many steps.
THEOREM OperationsEnd ==
    Spec => /\ [](Survivors \in Nat /\ Stage \in 0..4 /\ RoundsLeft \in Nat)
            /\ [](phase = "idle" <=> Stage = 0)
            /\ [][phase # "idle" /\ phase' # "down" =>
                      Nearer \/ UNCHANGED <<blocks, tip, phase, target>>]_vars
<1>1. TypeInv => (phase = "idle" <=> Stage = 0)
  <2> SUFFICES ASSUME TypeInv PROVE phase = "idle" <=> Stage = 0
    OBVIOUS
  <2>1. phase \in Phases
    BY DEF TypeInv, TypeOK
  <2> QED
    BY <2>1 DEF Stage, Phases
<1>2. TypeInv /\ [Next]_vars
      => [phase # "idle" /\ phase' # "down" =>
              Nearer \/ UNCHANGED <<blocks, tip, phase, target>>]_vars
  <2> SUFFICES ASSUME TypeInv, Next, phase # "idle", phase' # "down"
               PROVE  Nearer \/ UNCHANGED <<blocks, tip, phase, target>>
    OBVIOUS
  <2>1. ~(\E b \in Block : PushBlock(b)) /\ ~(\E h \in Heights : PopOffTo(h)) /\ ~FullReset
    BY DEF PushBlock, PopOffTo, FullReset
  <2>2. ~(\E h \in 0..MaxHeight + 2 : RequestScan(h)) /\ ~Crash
    BY DEF RequestScan, Crash
  <2>3. ~RestartFails
    BY DEF RestartFails, memory
  <2>4. RequestTrim \/ StartTrim \/ Trim => UNCHANGED <<blocks, tip, phase, target>>
    BY DEF RequestTrim, StartTrim, Trim, durable
  <2>5. Restart(TRUE) \/ Restart(FALSE) => \E force \in BOOLEAN : Restart(force)
    OBVIOUS
  <2> QED
    BY <2>1, <2>2, <2>3, <2>4, <2>5, PoppingEnds, ScanningEnds DEF Next, Proceed
<1> QED
  BY <1>1, <1>2, MeasureInNat, TypeInvariance, PTL DEF Spec

-----------------------------------------------------------------------------
(* The order of the effects, on a node that trims and is killed at any time, *)
(* as long as rescans are due from heights up to which the effects are there. *)

\* Unless a rescan is flagged, no effects are missing, and while effects are
\* missing one is.
Ordered ==
    /\ Agree
    /\ ~scanTable.rescan => Len(blocks) <= Len(applied)
    /\ phase \in {"idle", "popping"} => Len(blocks) <= Len(applied)
    /\ phase \in {"cutting", "resetting", "scanning", "scanFailed"} => scanTable.rescan
    /\ phase \in {"scanning", "scanFailed"} => Len(applied) = tip

LEMMA InNat ==
    ASSUME TypeInv
    PROVE  /\ trimmed \in Nat /\ lastTrimHeight \in Nat /\ MaxRollback \in Nat
           /\ tip \in Nat /\ target \in Nat /\ TrimHeight(tip) \in Nat
           /\ Len(blocks) \in Nat /\ Len(applied) \in Nat
           /\ blocks \in Seq(Block) /\ applied \in Seq(Block)
BY Known, ConfigurationAssumption DEF TypeInv, TypeOK, Heights, TrimHeight, Larger

LEMMA ScanFlags ==
    /\ \A h : ScanFrom(h).rescan /\ ScanFrom(h).height = h
    /\ ~NoScan.rescan /\ NoScan.height = 0
BY DEF ScanFrom, NoScan

LEMMA InitOrdered == Init => Ordered
<1> SUFFICES ASSUME Init PROVE Ordered
  OBVIOUS
<1>1. Len(<<>>) = 0
  OBVIOUS
<1> QED
  BY <1>1, ScanFlags DEF Init, Ordered, Agree

\* Taking blocks or effects away from the end.
LEMMA Shorter ==
    ASSUME TypeInv, Agree,
           Len(blocks') \in Nat, Len(blocks') <= Len(blocks),
           \A i \in 1..Len(blocks') : blocks'[i] = blocks[i],
           Len(applied') \in Nat, Len(applied') <= Len(applied),
           \A i \in 1..Len(applied') : applied'[i] = applied[i]
    PROVE  Agree'
<1> SUFFICES ASSUME NEW i \in 1..Len(blocks'), i <= Len(applied') PROVE blocks'[i] = applied'[i]
  BY DEF Agree
<1>1. i \in 1..Len(blocks) /\ i \in 1..Len(applied') /\ i <= Len(applied)
  BY InNat
<1> QED
  BY <1>1 DEF Agree

LEMMA PushOrdered ==
    ASSUME TypeInv, Ordered, NEW b \in Block, PushBlock(b)
    PROVE  Ordered'
<1>1. Len(applied) = Len(blocks)
  BY InNat DEF PushBlock, Ordered, TypeInv, Lengths
<1>2. /\ Len(blocks') = Len(blocks) + 1 /\ Len(applied') = Len(applied) + 1
      /\ \A i \in 1..Len(blocks) : blocks'[i] = blocks[i]
      /\ \A i \in 1..Len(applied) : applied'[i] = applied[i]
      /\ blocks'[Len(blocks) + 1] = b /\ applied'[Len(applied) + 1] = b
  BY InNat, AppendProperties DEF PushBlock
<1>3. Agree'
  <2> SUFFICES ASSUME NEW i \in 1..Len(blocks'), i <= Len(applied') PROVE blocks'[i] = applied'[i]
    BY DEF Agree
  <2>1. CASE i = Len(blocks) + 1
    BY <1>1, <1>2, <2>1
  <2>2. CASE i # Len(blocks) + 1
    <3>1. i \in 1..Len(blocks)
      BY <1>2, <2>2, InNat
    <3> QED
      BY <1>1, <1>2, <3>1 DEF Ordered, Agree
  <2> QED
    BY <2>1, <2>2
<1> QED
  BY <1>1, <1>2, <1>3, InNat DEF PushBlock, Ordered

LEMMA PopOrdered ==
    ASSUME TypeInv, Ordered
    PROVE  \/ \E h \in Heights : PopOffTo(h)
           \/ PopLastBlock \/ PoppedOff \/ PopOffFails
           \/ CutBlock \/ Cut \/ FullReset \/ DeleteAll
           => Ordered'
<1> USE DEF Ordered
<1>1. ASSUME NEW h \in Heights, PopOffTo(h) PROVE Ordered'
  <2>1. \/ phase' = "cutting" /\ scanTable' = ScanFrom(0)
        \/ phase' = "popping" /\ scanTable' = scanTable
    BY <1>1, Zenon DEF PopOffTo
  <2>2. phase = "idle" /\ UNCHANGED <<blocks, applied, tip>>
    BY <1>1 DEF PopOffTo
  <2> QED
    BY <2>1, <2>2, ScanFlags DEF Agree
<1>2. ASSUME PopLastBlock \/ CutBlock PROVE Ordered'
  <2>1. Len(blocks) > 0 /\ blocks' = DropLast(blocks)
    BY <1>2, InNat DEF PopLastBlock, CutBlock
  <2>2. Len(blocks') = Len(blocks) - 1 /\ \A i \in 1..Len(blocks') : blocks'[i] = blocks[i]
    BY <2>1, InNat, Dropped
  <2>3. UNCHANGED <<applied, scanTable, phase, target>> /\ phase \in {"popping", "cutting"}
    BY <1>2 DEF PopLastBlock, CutBlock
  <2>4. Agree'
    BY <2>1, <2>2, <2>3, InNat, Shorter
  <2> QED
    BY <2>1, <2>2, <2>3, <2>4, InNat
<1>3. ASSUME PoppedOff PROVE Ordered'
  <2>1. /\ phase = "popping" /\ RollbackTables(target) /\ Len(blocks) = target
        /\ phase' = "idle" /\ UNCHANGED <<blocks, scanTable>>
    BY <1>3 DEF PoppedOff
  <2>2. /\ Len(applied') = IF target < Len(applied) THEN target ELSE Len(applied)
        /\ \A i \in 1..Len(applied') : applied'[i] = applied[i]
    BY <2>1, InNat, RolledBack DEF TypeInv
  <2>3. Agree'
    BY <2>1, <2>2, InNat, Shorter
  <2> QED
    BY <2>1, <2>2, <2>3, InNat
<1>4. ASSUME PopOffFails PROVE Ordered'
  BY <1>4 DEF PopOffFails, durable, Agree
<1>5. ASSUME Cut \/ FullReset PROVE Ordered'
  BY <1>5, ScanFlags DEF Cut, FullReset, durable, Agree
<1>6. ASSUME DeleteAll PROVE Ordered'
  <2>1. Len(blocks') = 0
    BY <1>6 DEF DeleteAll
  <2> QED
    BY <1>6, <2>1 DEF DeleteAll, Agree
<1> QED
  BY <1>1, <1>2, <1>3, <1>4, <1>5, <1>6

LEMMA ScanOrdered ==
    ASSUME TypeInv, Ordered, Resumable
    PROVE  \/ \E h \in 0..MaxHeight + 2 : RequestScan(h)
           \/ NoScanNeeded \/ BeginFullScan \/ BeginPartialScan \/ ScanThrows
           \/ ScanBlock \/ ScanFails \/ DropUnscanned \/ ScanAborted \/ ScanDone
           => Ordered'
<1> USE DEF Ordered
<1>0. /\ tip = Len(blocks) \/ phase # "scanDue"
      /\ phase = "scanDue" /\ target # 0 => Len(applied) <= tip
      /\ phase = "scanDue" => target <= Len(applied) + 1 \/ Len(applied) = Len(blocks)
  BY DEF TypeInv, Lengths, Resumable
<1>1. ASSUME NEW h \in 0..MaxHeight + 2, RequestScan(h) PROVE Ordered'
  BY <1>1 DEF RequestScan, durable, Agree
<1>2. ASSUME NoScanNeeded PROVE Ordered'
  <2>1. /\ phase = "scanDue" /\ target > tip + 1 /\ phase' = "idle" /\ scanTable' = NoScan
        /\ UNCHANGED <<blocks, applied>>
    BY <1>2 DEF NoScanNeeded
  <2>2. Len(blocks) <= Len(applied)
    BY <1>0, <2>1, InNat
  <2> QED
    BY <2>1, <2>2, ScanFlags DEF Agree
<1>9. ASSUME BeginPartialScan PROVE Ordered'
  <2>1. /\ phase = "scanDue" /\ phase' = "scanning" /\ scanTable' = ScanFrom(target)
        /\ target \in Larger(MinRollbackHeight, 1)..tip
        /\ RollbackTables(target - 1) /\ tip' = target - 1 /\ blocks' = blocks
    BY <1>9 DEF BeginPartialScan
  <2>2. target >= 1 /\ target <= tip
    BY <2>1, InNat, TrimHeights DEF Larger, Heights, TypeInv
  <2>3. target - 1 \in Nat /\ target <= Len(applied) + 1
    BY <1>0, <2>1, <2>2, InNat
  <2>4. /\ Len(applied') = IF target - 1 < Len(applied) THEN target - 1 ELSE Len(applied)
        /\ \A i \in 1..Len(applied') : applied'[i] = applied[i]
    BY <2>1, <2>3, RolledBack DEF TypeInv
  <2>5. Len(applied') = target - 1
    BY <2>3, <2>4, InNat
  <2>6. Agree'
    BY <2>1, <2>3, <2>4, <2>5, InNat, Shorter
  <2> QED
    BY <2>1, <2>5, <2>6, ScanFlags
<1>10. ASSUME ScanThrows PROVE Ordered'
  <2>1. /\ phase = "scanDue" /\ phase' = "idle" /\ target = tip + 1 /\ RollbackTables(tip)
        /\ scanTable' = ScanFrom(target) /\ blocks' = blocks
    BY <1>10 DEF ScanThrows
  <2>2. Len(applied) = tip
    BY <1>0, <2>1, InNat
  <2>3. applied' = applied
    <3>1. ~(tip < Len(applied))
      BY <2>2, InNat
    <3> QED
      BY <2>1, <3>1 DEF RollbackTables
  <2> QED
    BY <1>0, <2>1, <2>2, <2>3, ScanFlags, InNat DEF Agree
<1>3. ASSUME BeginFullScan PROVE Ordered'
  <2>1. /\ Len(applied') = 0 /\ tip' = 0 /\ phase' = "scanning" /\ blocks' = blocks
        /\ scanTable' = ScanFrom(target)
    BY <1>3 DEF BeginFullScan
  <2>2. scanTable'.rescan
    BY <2>1, ScanFlags
  <2>3. Agree'
    BY <2>1 DEF Agree
  <2> QED
    BY <2>1, <2>2, <2>3
<1>4. ASSUME ScanBlock PROVE Ordered'
  <2>1. /\ phase = "scanning" /\ phase' = phase /\ tip < Len(blocks) /\ Len(applied) = tip
        /\ applied' = Append(applied, blocks[tip + 1]) /\ tip' = tip + 1
        /\ UNCHANGED <<blocks, scanTable>>
    BY <1>4, Zenon DEF ScanBlock
  <2>2. blocks[tip + 1] \in Block
    BY <2>1, InNat, ElementOfSeq
  <2>3. /\ Len(applied') = tip + 1 /\ applied'[tip + 1] = blocks[tip + 1]
        /\ \A i \in 1..tip : applied'[i] = applied[i]
    BY <2>1, <2>2, InNat, AppendProperties
  <2>4. Agree'
    <3> SUFFICES ASSUME NEW i \in 1..Len(blocks), i <= tip + 1 PROVE blocks[i] = applied'[i]
      BY <2>1, <2>3 DEF Agree
    <3>1. CASE i = tip + 1
      BY <2>3, <3>1
    <3>2. CASE i # tip + 1
      <4>1. i \in 1..tip /\ i <= Len(applied)
        BY <2>1, <3>2, InNat
      <4> QED
        BY <2>3, <4>1 DEF Agree
    <3> QED
      BY <3>1, <3>2
  <2> QED
    BY <2>1, <2>3, <2>4
<1>5. ASSUME ScanFails PROVE Ordered'
  BY <1>5 DEF ScanFails, durable, Agree
<1>6. ASSUME DropUnscanned PROVE Ordered'
  <2>1. /\ Len(blocks) > 0 /\ blocks' = DropLast(blocks) /\ phase = "scanFailed"
        /\ UNCHANGED <<applied, scanTable, tip, phase, target>>
    BY <1>6, InNat DEF DropUnscanned
  <2>2. Len(blocks') = Len(blocks) - 1 /\ \A i \in 1..Len(blocks') : blocks'[i] = blocks[i]
    BY <2>1, InNat, Dropped
  <2>3. Agree'
    BY <2>1, <2>2, InNat, Shorter
  <2> QED
    BY <2>1, <2>3
<1>7. ASSUME ScanAborted PROVE Ordered'
  <2>1. /\ phase = "scanFailed" /\ Len(blocks) = target /\ Len(applied) = tip /\ target = tip
        /\ UNCHANGED <<blocks, tip>>
    BY <1>7, Zenon DEF ScanAborted, TypeInv, Lengths
  <2>2. \/ phase' = "scanDue" /\ target' = 0 /\ UNCHANGED <<applied, scanTable>>
        \/ phase' = "idle" /\ scanTable' = NoScan /\ RollbackTables(tip)
    BY <1>7, Zenon DEF ScanAborted
  <2>3. RollbackTables(tip) => applied' = applied
    <3>1. ~(tip < Len(applied))
      BY <2>1, InNat
    <3> QED
      BY <3>1 DEF RollbackTables
  <2>4. CASE phase' = "scanDue" /\ target' = 0 /\ UNCHANGED <<applied, scanTable>>
    BY <2>1, <2>4 DEF Agree
  <2>5. CASE phase' = "idle" /\ scanTable' = NoScan /\ RollbackTables(tip)
    BY <2>1, <2>3, <2>5, ScanFlags, InNat DEF Agree
  <2> QED
    BY <2>2, <2>4, <2>5
<1>8. ASSUME ScanDone PROVE Ordered'
  BY <1>8, ScanFlags, InNat DEF ScanDone, Agree
<1> QED
  BY <1>1, <1>2, <1>3, <1>4, <1>5, <1>6, <1>7, <1>8, <1>9, <1>10

\* A restart rolls the tables back to the last block that is left.
LEMMA OtherOrdered ==
    ASSUME TypeInv, Ordered
    PROVE  \/ RequestTrim \/ StartTrim \/ Trim \/ Crash \/ RestartFails
           \/ \E force \in BOOLEAN : Restart(force)
           => Ordered'
<1> USE DEF Ordered
<1>1. ASSUME RequestTrim \/ StartTrim \/ Trim \/ Crash PROVE Ordered'
  BY <1>1 DEF RequestTrim, StartTrim, Trim, Crash, durable, Agree
<1>2. ASSUME RollbackTables(Len(blocks)), UNCHANGED <<blocks, scanTable>>
      PROVE  Agree' /\ (~scanTable'.rescan => Len(blocks') <= Len(applied'))
  <2>1. /\ Len(applied') = IF Len(blocks) < Len(applied) THEN Len(blocks) ELSE Len(applied)
        /\ \A i \in 1..Len(applied') : applied'[i] = applied[i]
    BY <1>2, InNat, RolledBack DEF TypeInv
  <2> QED
    BY <1>2, <2>1, InNat, Shorter
<1>3. ASSUME RestartFails PROVE Ordered'
  BY <1>2, <1>3 DEF RestartFails, memory
<1>4. ASSUME NEW force \in BOOLEAN, Restart(force) PROVE Ordered'
  <2>1. /\ RollbackTables(Len(blocks)) /\ UNCHANGED <<blocks, scanTable>>
        /\ phase' = IF force \/ scanTable.rescan THEN "scanDue" ELSE "idle"
        /\ target' = IF force THEN 0 ELSE scanTable.height
    BY <1>4 DEF Restart
  <2> QED
    BY <1>2, <2>1
<1> QED
  BY <1>1, <1>3, <1>4

LEMMA OrderedStep == TypeInv /\ Ordered /\ Resumable /\ [Next]_vars => Ordered'
<1> SUFFICES ASSUME TypeInv, Ordered, Resumable, [Next]_vars PROVE Ordered'
  OBVIOUS
<1>1. CASE UNCHANGED vars
  BY <1>1 DEF vars, durable, memory, Ordered, Agree
<1>2. CASE Next
  BY <1>2, PushOrdered, PopOrdered, ScanOrdered, OtherOrdered DEF Next, Proceed
<1> QED
  BY <1>1, <1>2

LEMMA OrderedHolds == Spec /\ []Resumable => [](TypeInv /\ Ordered)
BY TypeInvariance, InitOrdered, OrderedStep, PTL DEF Spec

LEMMA OrderedMatches ==
    TypeInv /\ Ordered => (phase = "idle" => applied = blocks /\ tip = Len(blocks))
<1> SUFFICES ASSUME TypeInv, Ordered, phase = "idle" PROVE applied = blocks /\ tip = Len(blocks)
  OBVIOUS
<1>1. tip = Len(blocks) /\ Agree /\ Len(blocks) = Len(applied)
  BY InNat DEF TypeInv, Lengths, Ordered
<1> QED
  BY <1>1, Equal

\* Whatever was trimmed, and however often the node was killed, the effects in
\* the tables are those of the blocks, in their order, as long as every rescan is
\* due from a height up to which the effects are there.
THEOREM EffectsKeptCorrect == Spec => EffectsKept
BY OrderedHolds, OrderedMatches, PTL DEF EffectsKept

\* A rescan that is due starts from the genesis block.
FromGenesis == scanTable.height = 0 /\ (phase = "scanDue" => target = 0)

LEMMA FromGenesisStep == TypeInv /\ FromGenesis /\ [Next /\ FullRescansOnly]_vars => FromGenesis'
<1> SUFFICES ASSUME TypeInv, FromGenesis, [Next /\ FullRescansOnly]_vars PROVE FromGenesis'
  OBVIOUS
<1> USE DEF FromGenesis
<1>1. CASE UNCHANGED vars
  BY <1>1 DEF vars, durable, memory
<1>2. CASE Next /\ FullRescansOnly
  <2>1. ASSUME NEW b \in Block, PushBlock(b) PROVE FromGenesis'
    BY <2>1 DEF PushBlock
  <2>2. ASSUME NEW h \in Heights, PopOffTo(h) PROVE FromGenesis'
    <3>1. /\ phase' \in {"cutting", "popping"}
          /\ scanTable' = ScanFrom(0) \/ scanTable' = scanTable
      BY <2>2, Zenon DEF PopOffTo
    <3> QED
      BY <3>1, ScanFlags
  <2>3. ASSUME \/ PopLastBlock \/ PoppedOff \/ PopOffFails
               \/ CutBlock \/ Cut \/ FullReset \/ DeleteAll
        PROVE  FromGenesis'
    BY <2>3, ScanFlags DEF PopLastBlock, PoppedOff, PopOffFails, CutBlock, Cut, FullReset,
                           DeleteAll, durable
  <2>4. ASSUME NEW h \in 0..MaxHeight + 2, RequestScan(h) PROVE FromGenesis'
    BY <1>2, <2>4 DEF RequestScan, durable, FullRescansOnly
  <2>5. ASSUME \/ NoScanNeeded \/ BeginFullScan \/ BeginPartialScan \/ ScanThrows
        PROVE  FromGenesis'
    BY <2>5, ScanFlags DEF NoScanNeeded, BeginFullScan, BeginPartialScan, ScanThrows
  <2>6. ASSUME ScanBlock \/ ScanFails \/ DropUnscanned \/ ScanAborted \/ ScanDone
        PROVE  FromGenesis'
    <3>1. ScanBlock \/ ScanFails \/ DropUnscanned
          => scanTable' = scanTable /\ phase' \in {"scanning", "scanFailed"}
      BY Zenon DEF ScanBlock, ScanFails, DropUnscanned, durable
    <3>2. ScanAborted => \/ phase' = "scanDue" /\ target' = 0 /\ scanTable' = scanTable
                         \/ phase' = "idle" /\ scanTable' = NoScan
      BY Zenon DEF ScanAborted
    <3>3. ScanDone => scanTable' = NoScan /\ phase' = "idle"
      BY DEF ScanDone
    <3> QED
      BY <2>6, <3>1, <3>2, <3>3, ScanFlags
  <2>7. ASSUME RequestTrim \/ StartTrim \/ Trim \/ Crash \/ RestartFails PROVE FromGenesis'
    BY <2>7 DEF RequestTrim, StartTrim, Trim, Crash, RestartFails, durable, memory
  <2>8. ASSUME NEW force \in BOOLEAN, Restart(force) PROVE FromGenesis'
    BY <2>8 DEF Restart
  <2> QED
    BY <1>2, <2>1, <2>2, <2>3, <2>4, <2>5, <2>6, <2>7, <2>8 DEF Next, Proceed
<1> QED
  BY <1>1, <1>2

\* On a node on which nobody asks for a rescan from above the genesis block,
\* every rescan is due from there, so that the effects are those of the blocks
\* without exception: a forgotten trim costs rows, never a block or its place.
THEOREM EffectsFollowBlocks ==
    Spec /\ [][FullRescansOnly]_vars
        => [](phase = "idle" => applied = blocks /\ tip = Len(blocks))
<1>1. Init => FromGenesis
  BY DEF Init, FromGenesis, NoScan
<1>2. TypeInv /\ FromGenesis => Resumable
  BY InNat DEF FromGenesis, Resumable
<1>3. [Next]_vars /\ [FullRescansOnly]_vars => [Next /\ FullRescansOnly]_vars
  OBVIOUS
<1>4. TypeInv /\ FromGenesis /\ [Next]_vars /\ [FullRescansOnly]_vars => FromGenesis'
  BY <1>3, FromGenesisStep
<1> QED
  BY <1>1, <1>2, <1>4, TypeInvariance, EffectsKeptCorrect, PTL DEF Spec, EffectsKept

-----------------------------------------------------------------------------
(* The rows that a rollback needs, on the same node, as long as the trim      *)
(* height that is read says how far the tables were trimmed.                  *)

\* Unless a rescan from the genesis block is flagged, no row was missed so far,
\* and none will be when the tables are rolled back to the last block.
Kept ==
    /\ ~scanTable.rescan \/ scanTable.height > 0
       => exact /\ (Len(blocks) < Len(applied) => trimmed <= Len(blocks) + 1)
    /\ phase \in {"idle", "popping", "scanning", "scanFailed"} => exact
    /\ phase = "popping" => trimmed <= target + 1
    /\ phase \in {"cutting", "resetting"} => scanTable = ScanFrom(0)
    /\ phase = "scanDue" /\ target > 0 => exact

LEMMA InitKept == Init => Kept
<1> SUFFICES ASSUME Init PROVE Kept
  OBVIOUS
<1>1. Len(<<>>) = 0
  OBVIOUS
<1> QED
  BY <1>1 DEF Init, Kept

LEMMA PopKept ==
    ASSUME TypeInv, Kept, Remembered
    PROVE  \/ \E b \in Block : PushBlock(b)
           \/ \E h \in Heights : PopOffTo(h)
           \/ PopLastBlock \/ PoppedOff \/ PopOffFails
           \/ CutBlock \/ Cut \/ FullReset \/ DeleteAll
           => Kept'
<1> USE DEF Kept
<1>1. ASSUME NEW b \in Block, PushBlock(b) PROVE Kept'
  <2>1. /\ phase = "idle" /\ phase' = phase
        /\ UNCHANGED <<trimmed, exact, scanTable, target>>
    BY <1>1 DEF PushBlock
  <2>2. Len(applied) <= Len(blocks)
    BY <2>1 DEF TypeInv, Lengths
  <2>3. Len(blocks') = Len(blocks) + 1 /\ Len(applied') = Len(applied) + 1
    BY <1>1, InNat, AppendProperties DEF PushBlock
  <2>4. ~(Len(blocks') < Len(applied'))
    BY <2>2, <2>3, InNat
  <2> QED
    BY <2>1, <2>4
<1>2. ASSUME NEW h \in Heights, PopOffTo(h) PROVE Kept'
  <2>1. \/ phase' = "cutting" /\ scanTable' = ScanFrom(0)
        \/ phase' = "popping" /\ scanTable' = scanTable /\ ~(h < MinRollbackHeight)
    BY <1>2, Zenon DEF PopOffTo
  <2>2. /\ phase = "idle" /\ target' = h /\ UNCHANGED <<blocks, applied, trimmed, exact>>
    BY <1>2 DEF PopOffTo
  <2>3. ~(h < MinRollbackHeight) => trimmed <= h + 1
    BY <2>2, InNat, TrimHeights DEF Remembered, Heights, TypeInv
  <2> QED
    BY <2>1, <2>2, <2>3, ScanFlags
<1>3. ASSUME PopLastBlock PROVE Kept'
  <2>1. /\ Len(blocks) > target /\ blocks' = DropLast(blocks) /\ phase = "popping"
        /\ UNCHANGED <<applied, trimmed, exact, scanTable, phase, target>>
    BY <1>3 DEF PopLastBlock
  <2>2. Len(blocks') = Len(blocks) - 1
    BY <2>1, InNat, Dropped
  <2>3. trimmed <= Len(blocks') + 1
    BY <2>1, <2>2, InNat
  <2> QED
    BY <2>1, <2>3
<1>4. ASSUME PoppedOff PROVE Kept'
  <2>1. /\ phase = "popping" /\ RollbackTables(target) /\ Len(blocks) = target /\ phase' = "idle"
        /\ UNCHANGED <<blocks, trimmed, scanTable, target>>
    BY <1>4 DEF PoppedOff
  <2>2. exact'
    BY <2>1 DEF RollbackTables
  <2> QED
    BY <2>1, <2>2
<1>5. ASSUME PopOffFails PROVE Kept'
  <2>1. /\ phase = "popping" /\ phase' = phase /\ Len(blocks) > target /\ target' = Len(blocks)
        /\ UNCHANGED <<blocks, applied, trimmed, exact, scanTable>>
    BY <1>5 DEF PopOffFails, durable
  <2>2. trimmed <= target' + 1
    BY <2>1, InNat
  <2> QED
    BY <2>1, <2>2
<1>6. ASSUME CutBlock \/ Cut \/ FullReset \/ DeleteAll PROVE Kept'
  <2>1. scanTable' = ScanFrom(0)
    BY <1>6 DEF CutBlock, Cut, FullReset, DeleteAll, durable
  <2>2. phase' \in {"cutting", "resetting"} \/ (phase' = "scanDue" /\ target' = 0)
    BY <1>6 DEF CutBlock, Cut, FullReset, DeleteAll
  <2> QED
    BY <2>1, <2>2, ScanFlags
<1> QED
  BY <1>1, <1>2, <1>3, <1>4, <1>5, <1>6

LEMMA ScanKept ==
    ASSUME TypeInv, TypeInv', Kept, Remembered
    PROVE  \/ \E h \in 0..MaxHeight + 2 : RequestScan(h)
           \/ NoScanNeeded \/ BeginFullScan \/ BeginPartialScan \/ ScanThrows
           \/ ScanBlock \/ ScanFails \/ DropUnscanned \/ ScanAborted \/ ScanDone
           => Kept'
<1> USE DEF Kept
<1>0. phase' \in {"idle", "scanning", "scanFailed"} => ~(Len(blocks') < Len(applied'))
  <2>1. Len(blocks') \in Nat /\ Len(applied') \in Nat /\ tip' \in Nat
    <3>1. blocks' \in Seq(Block) /\ applied' \in Seq(Block) /\ tip' \in Nat
      BY DEF TypeInv, TypeOK, Heights
    <3> QED
      BY <3>1, LenProperties
  <2> QED
    BY <2>1 DEF TypeInv, Lengths
<1>1. ASSUME NEW h \in 0..MaxHeight + 2, RequestScan(h) PROVE Kept'
  BY <1>1 DEF RequestScan, durable
<1>2. ASSUME NoScanNeeded PROVE Kept'
  <2>1. /\ phase = "scanDue" /\ target > tip + 1 /\ phase' = "idle" /\ scanTable' = NoScan
        /\ UNCHANGED <<trimmed, exact>>
    BY <1>2 DEF NoScanNeeded
  <2>2. target > 0
    BY <2>1, InNat
  <2> QED
    BY <1>0, <2>1, <2>2
<1>3. ASSUME BeginFullScan PROVE Kept'
  BY <1>0, <1>3 DEF BeginFullScan
<1>4. ASSUME BeginPartialScan PROVE Kept'
  <2>1. /\ phase = "scanDue" /\ phase' = "scanning" /\ RollbackTables(target - 1)
        /\ target \in Larger(MinRollbackHeight, 1)..tip
    BY <1>4 DEF BeginPartialScan
  <2>2. target > 0 /\ target >= MinRollbackHeight /\ MinRollbackHeight \in Nat
    BY <2>1, InNat, TrimHeights DEF Larger, Heights, TypeInv
  <2>3. exact /\ trimmed <= target
    BY <2>1, <2>2, InNat DEF Remembered
  <2>4. exact'
    <3>1. (target - 1) + 1 = target
      BY InNat
    <3>2. trimmed <= (target - 1) + 1
      BY <2>3, <3>1
    <3> QED
      BY <2>1, <2>3, <3>2 DEF RollbackTables
  <2> QED
    BY <1>0, <2>1, <2>4
<1>5. ASSUME ScanThrows PROVE Kept'
  <2>1. /\ phase = "scanDue" /\ phase' = "idle" /\ target = tip + 1 /\ RollbackTables(tip)
    BY <1>5 DEF ScanThrows
  <2>2. exact /\ ~(tip < Len(applied))
    BY <2>1, InNat DEF TypeInv, Lengths
  <2>3. exact'
    BY <2>1, <2>2 DEF RollbackTables
  <2> QED
    BY <1>0, <2>1, <2>3
<1>6. ASSUME ScanBlock \/ ScanFails \/ DropUnscanned PROVE Kept'
  <2>1. /\ phase \in {"scanning", "scanFailed"} /\ phase' \in {"scanning", "scanFailed"}
        /\ exact' = exact
    BY <1>6, Zenon DEF ScanBlock, ScanFails, DropUnscanned, durable
  <2> QED
    BY <1>0, <2>1
<1>7. ASSUME ScanAborted PROVE Kept'
  <2>1. /\ phase = "scanFailed" /\ UNCHANGED <<blocks, trimmed, tip>>
    BY <1>7, Zenon DEF ScanAborted
  <2>2. \/ phase' = "scanDue" /\ target' = 0 /\ UNCHANGED <<applied, exact, scanTable>>
        \/ phase' = "idle" /\ RollbackTables(tip)
    BY <1>7, Zenon DEF ScanAborted
  <2>3. exact /\ ~(tip < Len(applied))
    BY <2>1, InNat DEF TypeInv, Lengths
  <2>4. CASE phase' = "scanDue" /\ target' = 0 /\ UNCHANGED <<applied, exact, scanTable>>
    BY <2>1, <2>4
  <2>5. CASE phase' = "idle" /\ RollbackTables(tip)
    <3>1. exact'
      BY <2>3, <2>5 DEF RollbackTables
    <3> QED
      BY <1>0, <2>5, <3>1
  <2> QED
    BY <2>2, <2>4, <2>5
<1>8. ASSUME ScanDone PROVE Kept'
  BY <1>0, <1>8 DEF ScanDone
<1> QED
  BY <1>1, <1>2, <1>3, <1>4, <1>5, <1>6, <1>7, <1>8

LEMMA CrashKept ==
    ASSUME TypeInv, Kept
    PROVE  \/ RequestTrim \/ StartTrim \/ Trim \/ Crash \/ RestartFails
           \/ \E force \in BOOLEAN : Restart(force)
           => Kept'
<1> USE DEF Kept
<1>1. ASSUME RequestTrim \/ StartTrim PROVE Kept'
  BY <1>1 DEF RequestTrim, StartTrim, durable
<1>2. ASSUME Trim PROVE Kept'
  <2>1. phase = "idle" /\ phase' = phase /\ UNCHANGED <<blocks, applied, exact>>
    BY <1>2 DEF Trim
  <2>2. ~(Len(blocks) < Len(applied))
    BY <2>1, InNat DEF TypeInv, Lengths
  <2> QED
    BY <2>1, <2>2
<1>3. ASSUME Crash PROVE Kept'
  BY <1>3 DEF Crash, durable
<1>4. ASSUME RollbackTables(Len(blocks)), UNCHANGED <<blocks, trimmed, scanTable>>
      PROVE  ~scanTable.rescan \/ scanTable.height > 0
             => exact' /\ ~(Len(blocks') < Len(applied'))
  <2>1. Len(applied') = IF Len(blocks) < Len(applied) THEN Len(blocks) ELSE Len(applied)
    BY <1>4, InNat, RolledBack DEF TypeInv
  <2>2. ~scanTable.rescan \/ scanTable.height > 0 => exact'
    BY <1>4 DEF RollbackTables
  <2> QED
    BY <1>4, <2>1, <2>2, InNat
<1>5. ASSUME RestartFails PROVE Kept'
  <2>1. /\ phase = "down" /\ phase' = phase /\ RollbackTables(Len(blocks))
        /\ UNCHANGED <<blocks, trimmed, scanTable>>
    BY <1>5 DEF RestartFails, memory
  <2> QED
    BY <1>4, <2>1
<1>6. ASSUME NEW force \in BOOLEAN, Restart(force) PROVE Kept'
  <2>1. /\ RollbackTables(Len(blocks)) /\ UNCHANGED <<blocks, trimmed, scanTable>>
        /\ phase' = IF force \/ scanTable.rescan THEN "scanDue" ELSE "idle"
        /\ target' = IF force THEN 0 ELSE scanTable.height
    BY <1>6 DEF Restart
  <2> QED
    BY <1>4, <2>1
<1> QED
  BY <1>1, <1>2, <1>3, <1>5, <1>6

LEMMA KeptStep == TypeInv /\ TypeInv' /\ Kept /\ Remembered /\ [Next]_vars => Kept'
<1> SUFFICES ASSUME TypeInv, TypeInv', Kept, Remembered, [Next]_vars PROVE Kept'
  OBVIOUS
<1>1. CASE UNCHANGED vars
  BY <1>1 DEF vars, durable, memory, Kept
<1>2. CASE Next
  BY <1>2, PopKept, ScanKept, CrashKept DEF Next, Proceed
<1> QED
  BY <1>1, <1>2

LEMMA KeptHolds == Spec /\ []Remembered => [](TypeInv /\ Kept)
BY TypeInvariance, InitKept, KeptStep, PTL DEF Spec

\* While the trim height says how far the tables were trimmed, every rollback and
\* rescan finds the rows it needs, also one that a crash interrupted and a
\* restart carries through, whatever is trimmed in the background.
THEOREM RowsKeptCorrect == Spec => RowsKept
<1>1. TypeInv /\ Kept => (phase = "idle" => exact)
  BY DEF Kept
<1> QED
  BY <1>1, KeptHolds, PTL DEF RowsKept

\* Both together: what is on disk can be brought back to the last block at any
\* commit, by a rescan that is flagged or by a rollback that finds its rows.
THEOREM RecoverableWithTrims == Spec /\ []Remembered /\ []Resumable => []Recoverable
<1>1. TypeInv /\ Ordered /\ Kept => Recoverable
  <2> SUFFICES ASSUME TypeInv, Ordered, Kept, ~scanTable.rescan
               PROVE  /\ exact
                      /\ Len(blocks) <= Len(applied)
                      /\ blocks = SubSeq(applied, 1, Len(blocks))
                      /\ Len(blocks) < Len(applied) => trimmed <= Len(blocks) + 1
    BY DEF Recoverable
  <2>1. Len(blocks) <= Len(applied) /\ Agree
    BY DEF Ordered
  <2>2. /\ SubSeq(applied, 1, Len(blocks)) \in Seq(Block)
        /\ Len(SubSeq(applied, 1, Len(blocks))) = Len(blocks)
        /\ \A i \in 1..Len(blocks) : blocks[i] = SubSeq(applied, 1, Len(blocks))[i]
    BY <2>1, InNat, Prefix DEF Agree
  <2>3. blocks = SubSeq(applied, 1, Len(blocks))
    BY <2>2, InNat, SeqEqual
  <2> QED
    BY <2>1, <2>3 DEF Kept
<1> QED
  BY <1>1, OrderedHolds, KeptHolds, PTL

\* The rescan flag is cleared by no step that leaves the tables short of a block.
THEOREM ScanFlagClearedWithTrims == Spec /\ []Resumable => ScanFlagCleared
<1>1. (TypeInv /\ Ordered)' /\ [Next]_vars
      => [scanTable.rescan /\ ~scanTable'.rescan => applied' = blocks']_vars
  <2> SUFFICES ASSUME (TypeInv /\ Ordered)', Next, scanTable.rescan, ~scanTable'.rescan
               PROVE  applied' = blocks'
    OBVIOUS
  <2>1. (phase = "idle" => applied = blocks /\ tip = Len(blocks))'
    BY OrderedMatches, PTL
  <2> QED
    BY <2>1, Clearing
<1> QED
  BY <1>1, OrderedHolds, PTL DEF Spec, ScanFlagCleared
=============================================================================
