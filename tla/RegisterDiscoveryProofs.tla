----------------------- MODULE RegisterDiscoveryProofs -----------------------
(***************************************************************************)
(* Theorems about RegisterDiscovery, for every configuration, device and   *)
(* way of batching.                                                        *)
(***************************************************************************)
EXTENDS RegisterDiscovery, BatchBuilder, NaturalLemmas, SequenceTheorems, TLAPS

LOCAL INSTANCE FiniteSetsExt

-----------------------------------------------------------------------------
(* What the operators return. *)

LEMMA IdleTyped == Idle \in Runs
BY DEF Idle, Runs

LEMMA MappedTyped == \A S \in SUBSET Registers : Mapped[S] \in SUBSET Registers
BY RegisterAssumption

LEMMA StartedTyped ==
  ASSUME NEW S \in SUBSET Registers
  PROVE  Started(S) \in Runs
<1>1. Mapped[S] \in SUBSET Registers
  BY MappedTyped
<1>2. QED BY <1>1, IdleTyped DEF Started, Idle, Runs

LEMMA ConstantsTyped == Registers \subseteq Nat /\ MaxDepth \in Nat \ {0}
BY RegisterAssumption

LEMMA SeqElements ==
  ASSUME NEW X, NEW s \in Seq(X)
  PROVE  /\ DOMAIN s = 1..Len(s) /\ Len(s) \in Nat
         /\ \A n \in DOMAIN s : s[n] \in X
OBVIOUS

LEMMA BatchTasksTyped ==
  ASSUME NEW S \in SUBSET Registers
  PROVE  BatchTasks(S) \in Seq(Tasks)
<1> DEFINE B == Batches[S]
           task(n) == [kind |-> "batch", start |-> B[n].start, count |-> B[n].count, depth |-> 0]
<1>1. B \in Seq([start: Registers, count: Nat \ {0}])
  BY RegisterAssumption
<1>2. /\ DOMAIN B = 1..Len(B) /\ Len(B) \in Nat
      /\ \A n \in DOMAIN B : B[n] \in [start: Registers, count: Nat \ {0}]
  <2> HIDE DEF B
  <2>1. QED BY <1>1, SeqElements
<1>3. \A n \in DOMAIN B : task(n) \in Tasks
  <2> HIDE DEF B
  <2> SUFFICES ASSUME NEW n \in DOMAIN B PROVE task(n) \in Tasks
    OBVIOUS
  <2>1. B[n].start \in Registers /\ B[n].count \in Nat \ {0}
    BY <1>2
  <2>2. B[n].start \in Nat
    BY <2>1, ConstantsTyped
  <2>3. 0 \in 0..MaxDepth
    BY ConstantsTyped
  <2>4. QED BY <2>1, <2>2, <2>3 DEF Tasks
<1>4. BatchTasks(S) = [n \in 1..Len(B) |-> task(n)]
  BY <1>2 DEF BatchTasks
<1>5. QED
  <2> HIDE DEF B, task
  <2>1. \A n \in 1..Len(B) : task(n) \in Tasks
    BY <1>2, <1>3
  <2>2. QED BY <1>2, <1>4, <2>1

LEMMA HalfTyped ==
  ASSUME NEW S \in SUBSET Registers, NEW a \in Nat, NEW n \in Nat \ {0}, NEW d \in 0..MaxDepth
  PROVE  Half(S, a, n, d) \in Seq(Tasks)
<1>1. CASE S \cap a..(a + n - 1) = {}
  BY <1>1 DEF Half
<1>2. CASE S \cap a..(a + n - 1) # {}
  <2>1. n = 1 => a \in Registers
    BY <1>2
  <2>2. [kind |-> "half", start |-> a, count |-> n, depth |-> d] \in Tasks
    BY <2>1 DEF Tasks
  <2>3. QED BY <1>2, <2>2 DEF Half
<1>3. QED BY <1>1, <1>2

\* Splitting stays within the task type: the depth never passes MaxDepth.
LEMMA SplitTyped ==
  ASSUME NEW S \in SUBSET Registers, NEW t \in Tasks
  PROVE  Split(S, t) \in Seq(Tasks)
<1>1. CASE t.kind = "single" \/ t.depth >= MaxDepth
  BY <1>1 DEF Split
<1>2. CASE ~(t.kind = "single" \/ t.depth >= MaxDepth) /\ t.count = 1
  <2>1. [t EXCEPT !.kind = "single"] \in Tasks
    BY DEF Tasks
  <2>2. QED BY <1>2, <2>1 DEF Split
<1>3. CASE ~(t.kind = "single" \/ t.depth >= MaxDepth) /\ t.count # 1
  <2>1. /\ t.start \in Nat /\ t.count \in Nat \ {0} /\ t.count \div 2 \in Nat \ {0}
        /\ t.start + t.count \div 2 \in Nat
        /\ t.count - t.count \div 2 \in Nat \ {0}
        /\ t.depth + 1 \in 0..MaxDepth
    BY <1>3, ConstantsTyped DEF Tasks
  <2>2. /\ Half(S, t.start, t.count \div 2, t.depth + 1) \in Seq(Tasks)
        /\ Half(S, t.start + t.count \div 2, t.count - t.count \div 2, t.depth + 1) \in Seq(Tasks)
    BY <2>1, HalfTyped
  <2>3. QED BY <1>3, <2>2 DEF Split
<1>4. QED BY <1>1, <1>2, <1>3

\* The list of tasks after its head has been read, or split.
LEMMA TodoTyped ==
  ASSUME NEW S \in SUBSET Registers, NEW s \in Seq(Tasks), s # <<>>
  PROVE  /\ Head(s) \in Tasks
         /\ Tail(s) \in Seq(Tasks)
         /\ Split(S, Head(s)) \o Tail(s) \in Seq(Tasks)
<1>1. Head(s) \in Tasks /\ Tail(s) \in Seq(Tasks)
  OBVIOUS
<1>2. Split(S, Head(s)) \in Seq(Tasks)
  BY <1>1, SplitTyped
<1>3. QED BY <1>1, <1>2

\* The head of a list of tasks is a task of the type, read by read.
LEMMA AskingTyped ==
  ASSUME TypeOK, NEW i \in Refreshes, Reading(i)
  PROVE  /\ Asking(i) \in Tasks
         /\ Tail(run[i].todo) \in Seq(Tasks)
         /\ Split(run[i].asked, Asking(i)) \o Tail(run[i].todo) \in Seq(Tasks)
<1>1. run[i].todo \in Seq(Tasks) /\ run[i].todo # <<>> /\ run[i].asked \in SUBSET Registers
  BY DEF TypeOK, Runs, Reading
<1>2. QED BY <1>1, TodoTyped DEF Asking

\* Only a register of the configuration is ever blamed: a read of one word is
\* always the read of a register.
LEMMA BlameTyped ==
  ASSUME found \subseteq Registers, NEW t \in Tasks
  PROVE  Blame(t) \subseteq Registers
BY DEF Blame, Tasks

-----------------------------------------------------------------------------
(* Type correctness. *)

\* However a refresh ends in failure, the entry stays typed.
LEMMA GiveUpTyped ==
  ASSUME TypeOK, NEW i \in Refreshes, GiveUp(i)
  PROVE  /\ phase' \in {"down", "first", "platforms", "up"}
         /\ run' \in [Refreshes -> Runs]
         /\ UNCHANGED <<coord, tm, stored, disabled, notice, polled, found, locking, late>>
BY IdleTyped DEF GiveUp, TypeOK

LEMMA SucceedTyped ==
  ASSUME TypeOK, NEW i \in Refreshes, Succeed(i)
  PROVE  /\ phase' \in {"down", "first", "platforms", "up"}
         /\ run' \in [Refreshes -> Runs]
BY IdleTyped DEF Succeed, TypeOK

LEMMA WriteTyped ==
  ASSUME TypeOK, NEW i \in Refreshes, NEW why \in {"saving", "learning"},
         NEW S \in SUBSET Registers, Write(i, why, S)
  PROVE  /\ phase' \in {"down", "first", "platforms", "up"}
         /\ run' \in [Refreshes -> Runs]
<1>1. run' = [run EXCEPT ![i].pc = why, ![i].saving = S]
  BY DEF Write
<1>2. run' \in [Refreshes -> Runs]
  <2>1. why \in {"idle", "connecting", "reading", "saving", "learning", "removing"}
    OBVIOUS
  <2>2. QED BY <1>1, <2>1 DEF TypeOK, Runs
<1>3. QED BY <1>2 DEF Write, TypeOK

LEMMA ConcludeTyped ==
  ASSUME TypeOK, NEW i \in Refreshes, Conclude(i) \/ Succeed(i)
  PROVE  /\ phase' \in {"down", "first", "platforms", "up"}
         /\ run' \in [Refreshes -> Runs]
<1>1. CASE Succeed(i)
  BY <1>1, SucceedTyped
<1>2. CASE Write(i, "learning", coord)
  BY <1>2, WriteTyped DEF TypeOK
<1>3. QED BY <1>1, <1>2 DEF Conclude

\* Every field keeps its type; in particular only registers of the configuration
\* are ever listed as failed, though reads also cover the words between them.
THEOREM TypeCorrect == Spec => []TypeOK
<1>1. Init => TypeOK
  <2> SUFFICES ASSUME Init PROVE TypeOK
    OBVIOUS
  <2>1. run \in [Refreshes -> Runs]
    BY IdleTyped DEF Init
  <2>2. budget \in 0..MaxTrouble
    BY RegisterAssumption DEF Init
  <2>3. QED
    BY <2>1, <2>2 DEF Init, TypeOK
<1>2. TypeOK /\ [Next]_vars => TypeOK'
  <2> SUFFICES ASSUME TypeOK, [Next]_vars PROVE TypeOK'
    OBVIOUS
  <2>20. crossed' \in BOOLEAN
    BY DEF Next, vars, TypeOK
  <2> USE <2>20
  <2>0. Trouble => budget' \in 0..MaxTrouble
    BY RegisterAssumption DEF Trouble, TypeOK
  <2>1. CASE Setup
    <3>1. polled' \in SUBSET Registers /\ coord' \subseteq Registers /\ tm' \subseteq Registers
      BY <2>1 DEF Setup, Polled, TypeOK
    <3>2. run' \in [Refreshes -> Runs]
      BY <2>1, <3>1, StartedTyped DEF Setup, TypeOK, Refreshes
    <3>3. QED BY <2>0, <2>1, <3>1, <3>2 DEF Setup, TypeOK
  <2>2. CASE Hide
    BY <2>2 DEF Hide, TypeOK
  <2>3. CASE Toggle
    <3>1. disabled' \subseteq Registers
      BY <2>3, RegisterAssumption DEF Toggle, TypeOK
    <3>2. QED BY <2>0, <2>3, <3>1 DEF Toggle, TypeOK
  <2>4. CASE HandleNotice
    BY <2>4 DEF HandleNotice, Current, Polled, TypeOK
  <2>5. CASE Stop
    <3>1. stored' \subseteq Registers
      BY <2>5 DEF Stop, TypeOK, Runs
    <3>2. run' \in [Refreshes -> Runs]
      BY <2>5, IdleTyped DEF Stop
    <3>3. QED BY <2>0, <2>5, <3>1, <3>2 DEF Stop, TypeOK
  <2>6. CASE Begin
    <3>1. run' \in [Refreshes -> Runs]
      BY <2>6, StartedTyped DEF Begin, TypeOK, Refreshes
    <3>2. QED BY <2>6, <3>1 DEF Begin, entry, TypeOK
  <2>7. CASE LinkDrops \/ OtherCommand
    BY <2>0, <2>7 DEF LinkDrops, OtherCommand, entry, TypeOK
  <2>8. CASE Clear
    <3>1. run' \in [Refreshes -> Runs]
      BY <2>8 DEF Clear, TypeOK, Runs, Refreshes
    <3>2. QED BY <2>0, <2>8, <3>1 DEF Clear, entry, TypeOK
  <2>9. CASE Cleared
    <3>1. polled' \in SUBSET Registers
      BY <2>9 DEF Cleared, Current, Polled, TypeOK
    <3>2. run' \in [Refreshes -> Runs]
      BY <2>9, <3>1, StartedTyped DEF Cleared, TypeOK, Refreshes
    <3>3. QED BY <2>9, <3>1, <3>2 DEF Cleared, TypeOK
  <2>10. ASSUME NEW i \in Refreshes, Connected(i) PROVE TypeOK'
    <3>1. BatchTasks(run[i].asked) \in Seq(Tasks)
      BY BatchTasksTyped DEF TypeOK, Runs
    <3>2. run' \in [Refreshes -> Runs]
      BY <2>10, <3>1 DEF Connected, TypeOK, Runs
    <3>3. QED BY <2>10, <3>2 DEF Connected, entry, TypeOK
  <2>11. ASSUME NEW i \in Refreshes, Refused(i) \/ SendFails(i) \/ LostBeforeBatch(i)
         PROVE  TypeOK'
    BY <2>0, <2>11, GiveUpTyped DEF Refused, SendFails, LostBeforeBatch, TypeOK
  <2>12. ASSUME NEW i \in Refreshes, LostInSplit(i) PROVE TypeOK'
    <3>1. run[i].todo \in Seq(Tasks)
      BY DEF TypeOK, Runs
    <3>2. PICK k \in 2..(Len(run[i].todo) + 1) :
            run' = [run EXCEPT ![i].todo = SubSeq(@, k, Len(@)), ![i].clean = FALSE]
      BY <2>12 DEF LostInSplit
    <3>3. SubSeq(run[i].todo, k, Len(run[i].todo)) \in Seq(Tasks)
      BY <3>1
    <3>4. run' \in [Refreshes -> Runs]
      BY <3>2, <3>3 DEF TypeOK, Runs
    <3>5. QED BY <2>12, <3>4 DEF LostInSplit, entry, TypeOK
  <2>13. ASSUME NEW i \in Refreshes,
                \/ SkipKnown(i) \/ Rejected(i) \/ TimesOut(i)
                \/ Misled(i) /\ TakeRejection(i)
         PROVE  TypeOK'
    <3>1. Reading(i)
      BY <2>13 DEF SkipKnown, Rejected, TimesOut, Misled, Sending
    <3>2. Asking(i) \in Tasks /\ Split(run[i].asked, Asking(i)) \o Tail(run[i].todo) \in Seq(Tasks)
      BY <3>1, AskingTyped
    <3>3. run' \in [Refreshes -> Runs]
      <4> DEFINE rest == Split(run[i].asked, Asking(i)) \o Tail(run[i].todo)
      <4>1. \/ run' = [run EXCEPT ![i].todo = rest]
            \/ \E b \in BOOLEAN : run' = [run EXCEPT ![i].todo = rest, ![i].clean = b]
        BY <2>13 DEF SkipKnown, Rejected, TakeRejection, TimesOut, Asking
      <4>2. rest \in Seq(Tasks)
        BY <3>2
      <4> HIDE DEF rest
      <4>3. CASE run' = [run EXCEPT ![i].todo = rest]
        BY <4>2, <4>3 DEF TypeOK, Runs
      <4>4. ASSUME NEW b \in BOOLEAN, run' = [run EXCEPT ![i].todo = rest, ![i].clean = b]
            PROVE  run' \in [Refreshes -> Runs]
        BY <4>2, <4>4 DEF TypeOK, Runs
      <4>5. QED BY <4>1, <4>3, <4>4
    <3>4. Blame(Asking(i)) \subseteq Registers
      BY <3>2, BlameTyped DEF TypeOK
    <3>5. OwnAnswer(i) \in Answers
      BY DEF OwnAnswer, Answers
    <3>6. late' \subseteq Answers
      BY <2>13, <3>5 DEF SkipKnown, Rejected, TimesOut, Misled, TypeOK
    <3>7. found' \subseteq Registers
      BY <2>13, <3>4 DEF SkipKnown, Rejected, TakeRejection, TimesOut, TypeOK
    <3>8. QED
      BY <2>0, <2>13, <3>3, <3>6, <3>7 DEF SkipKnown, Rejected, TimesOut, Misled, entry, TypeOK
  <2>14. ASSUME NEW i \in Refreshes,
                Answered(i) \/ (Misled(i) /\ TakeValues(i) /\ UNCHANGED found)
         PROVE  TypeOK'
    <3>1. Tail(run[i].todo) \in Seq(Tasks)
      BY <2>14, AskingTyped DEF Answered, Misled, Sending
    <3>2. PICK D \in SUBSET Registers :
            run' = [run EXCEPT ![i].data = D, ![i].todo = Tail(run[i].todo)]
      BY <2>14 DEF Answered, TakeValues, TypeOK, Runs
    <3>3. run' \in [Refreshes -> Runs]
      BY <3>1, <3>2 DEF TypeOK, Runs
    <3>4. OwnAnswer(i) \in Answers
      BY DEF OwnAnswer, Answers
    <3>5. late' \subseteq Answers
      BY <2>14, <3>4 DEF Answered, Misled, TypeOK
    <3>6. QED BY <2>0, <2>14, <3>3, <3>5 DEF Answered, Misled, entry, TypeOK
  <2>15. ASSUME NEW i \in Refreshes, Finish(i) PROVE TypeOK'
    <3>1. coord' \in SUBSET Registers
      BY <2>15 DEF Finish, TypeOK
    <3>2. /\ phase' \in {"down", "first", "platforms", "up"}
          /\ run' \in [Refreshes -> Runs]
      BY <2>15, <3>1, ConcludeTyped, WriteTyped DEF Finish
    <3>3. QED BY <2>15, <3>1, <3>2 DEF Finish, TypeOK
  <2>16. ASSUME NEW i \in Refreshes, Saved(i) PROVE TypeOK'
    <3>1. stored' \subseteq Registers /\ polled' \subseteq Registers
      BY <2>16 DEF Saved, Current, Polled, TypeOK, Runs
    <3>2. /\ phase' \in {"down", "first", "platforms", "up"}
          /\ run' \in [Refreshes -> Runs]
      BY <2>16, ConcludeTyped DEF Saved
    <3>3. QED BY <2>16, <3>1, <3>2 DEF Saved, TypeOK
  <2>17. ASSUME NEW i \in Refreshes, SaveFails(i) PROVE TypeOK'
    <3>1. /\ phase' \in {"down", "first", "platforms", "up"}
          /\ run' \in [Refreshes -> Runs]
      BY <2>17, ConcludeTyped DEF SaveFails
    <3>2. QED BY <2>0, <2>17, <3>1 DEF SaveFails, TypeOK
  <2>18. CASE UNCHANGED vars
    BY <2>18 DEF vars, state, TypeOK
  <2>21. ASSUME NEW i \in Refreshes, Misled(i) PROVE TypeOK'
    <3>1. TakeRejection(i) \/ (TakeValues(i) /\ UNCHANGED found)
      BY <2>21 DEF Misled
    <3>2. QED BY <2>13, <2>14, <2>21, <3>1
  <2>19. QED
    BY <2>1, <2>2, <2>3, <2>4, <2>5, <2>6, <2>7, <2>8, <2>9, <2>10, <2>11, <2>12,
       <2>13, <2>14, <2>15, <2>16, <2>17, <2>18, <2>21 DEF Next, Steps, Proceed
<1>3. QED
  BY <1>1, <1>2, PTL DEF Spec

-----------------------------------------------------------------------------
(* Which registers are held to have failed.                                 *)
(* FailInv adds what is on its way to disk: a crash may leave it there.     *)

BlamesRight ==
  /\ FailedAreUnsupported
  /\ \A i \in Refreshes : run[i].saving \subseteq Unsupported

FailInv == ~crossed => BlamesRight /\ ~Crossing

\* Only where answers can be taken for one another is a read misled.
LEMMA MisledCrosses ==
  ASSUME NEW i \in Refreshes, Misled(i)
  PROVE  Crossing
<1>1. Sending(i) /\ ForeignAnswers(i) # {}
  BY DEF Misled
<1>2. CASE late # {}
  BY <1>2 DEF Crossing
<1>3. CASE late = {}
  <2>1. PICK k \in Refreshes \ {i} : ~locking /\ Sending(k)
    BY <1>1, <1>3 DEF ForeignAnswers
  <2>2. \A j \in Refreshes : j = i \/ j = k
    BY <2>1 DEF Refreshes
  <2>3. QED BY <1>1, <2>1, <2>2 DEF Crossing
<1>4. QED BY <1>2, <1>3

\* A rejected read of one word names an unsupported register.
LEMMA BlameOnlyUnsupported ==
  ASSUME found \subseteq Unsupported, NEW t \in Tasks, WordsOf(t) \cap Unsupported # {}
  PROVE  Blame(t) \subseteq Unsupported
<1>1. CASE t.count = 1
  <2>1. t.start \in Nat
    BY DEF Tasks
  <2>2. t.start \in Unsupported
    BY <1>1, <2>1 DEF WordsOf
  <2>3. QED BY <1>1, <2>2 DEF Blame
<1>2. CASE t.count # 1
  BY <1>2 DEF Blame
<1>3. QED BY <1>1, <1>2

\* When a refresh ends, or is only reading on, nothing new is being saved.
LEMMA SavingUnchanged ==
  ASSUME TypeOK, BlamesRight, NEW i \in Refreshes,
         GiveUp(i) \/ Succeed(i) \/ SkipKnown(i) \/ Rejected(i) \/ Answered(i) \/ TimesOut(i)
         \/ LostInSplit(i) \/ Connected(i)
  PROVE  \A j \in Refreshes : run'[j].saving \subseteq Unsupported
<1>0. run \in [Refreshes -> Runs] /\ \A j \in Refreshes : run[j].saving \subseteq Unsupported
  BY DEF TypeOK, BlamesRight
<1>1. CASE GiveUp(i) \/ Succeed(i)
  <2>1. run' = [run EXCEPT ![i] = Idle] /\ Idle.saving = {}
    BY <1>1 DEF GiveUp, Succeed, Idle
  <2>2. QED BY <1>0, <2>1
<1>2. ASSUME NEW todo, NEW clean,
             \/ run' = [run EXCEPT ![i].todo = todo]
             \/ run' = [run EXCEPT ![i].todo = todo, ![i].clean = clean]
             \/ run' = [run EXCEPT ![i].data = clean, ![i].todo = todo]
             \/ run' = [run EXCEPT ![i].pc = clean, ![i].todo = todo]
      PROVE  \A j \in Refreshes : run'[j].saving \subseteq Unsupported
  <2>1. CASE run' = [run EXCEPT ![i].todo = todo]
    BY <1>0, <2>1 DEF Runs
  <2>2. CASE run' = [run EXCEPT ![i].todo = todo, ![i].clean = clean]
    BY <1>0, <2>2 DEF Runs
  <2>3. CASE run' = [run EXCEPT ![i].data = clean, ![i].todo = todo]
    BY <1>0, <2>3 DEF Runs
  <2>4. CASE run' = [run EXCEPT ![i].pc = clean, ![i].todo = todo]
    BY <1>0, <2>4 DEF Runs
  <2>5. QED BY <1>2, <2>1, <2>2, <2>3, <2>4
<1>3. CASE SkipKnown(i) \/ Rejected(i) \/ TimesOut(i)
  <2> DEFINE rest == Split(run[i].asked, Asking(i)) \o Tail(run[i].todo)
  <2>1. PICK b : \/ run' = [run EXCEPT ![i].todo = rest]
                 \/ run' = [run EXCEPT ![i].todo = rest, ![i].clean = b]
    BY <1>3 DEF SkipKnown, Rejected, TakeRejection, TimesOut, Asking
  <2> HIDE DEF rest
  <2>2. QED BY <1>0, <1>2, <2>1
<1>4. CASE Answered(i)
  <2>1. PICK D : run' = [run EXCEPT ![i].data = D, ![i].todo = Tail(run[i].todo)]
    BY <1>4 DEF Answered, TakeValues
  <2>2. QED BY <1>0, <1>2, <2>1
<1>5. CASE LostInSplit(i)
  <2>1. PICK k : run' = [run EXCEPT ![i].todo = SubSeq(run[i].todo, k, Len(run[i].todo)),
                                    ![i].clean = FALSE]
    BY <1>5 DEF LostInSplit
  <2>2. QED BY <1>0, <1>2, <2>1
<1>6. CASE Connected(i)
  <2>1. run' = [run EXCEPT ![i].pc = "reading", ![i].todo = BatchTasks(run[i].asked)]
    BY <1>6 DEF Connected
  <2>2. QED BY <1>0, <1>2, <2>1
<1>7. QED BY <1>1, <1>3, <1>4, <1>5, <1>6

\* What is put on its way to disk is a set of unsupported registers.
LEMMA SavingWritten ==
  ASSUME TypeOK, BlamesRight, NEW i \in Refreshes, NEW why \in {"saving", "learning"},
         NEW S \in SUBSET Unsupported, Write(i, why, S)
  PROVE  \A j \in Refreshes : run'[j].saving \subseteq Unsupported
<1>1. run' = [run EXCEPT ![i].pc = why, ![i].saving = S]
  BY DEF Write
<1>2. run \in [Refreshes -> Runs] /\ \A j \in Refreshes : run[j].saving \subseteq Unsupported
  BY DEF TypeOK, BlamesRight
<1>3. QED BY <1>1, <1>2 DEF Runs

LEMMA SavingConcluded ==
  ASSUME TypeOK, BlamesRight, NEW i \in Refreshes, Conclude(i) \/ Succeed(i)
  PROVE  \A j \in Refreshes : run'[j].saving \subseteq Unsupported
<1>1. CASE Succeed(i)
  BY <1>1, SavingUnchanged
<1>2. CASE Write(i, "learning", coord)
  BY <1>2, SavingWritten DEF BlamesRight, FailedAreUnsupported
<1>3. QED BY <1>1, <1>2 DEF Conclude

\* The invariant behind the theorem that follows: as long as answers cannot be
\* taken for one another, coordinator.py and the use case put nothing on the
\* lists, or on its way to disk, that the device has.
THEOREM FailAlways == Spec => []FailInv
<1>1. Init => FailInv
  BY DEF Init, FailInv, BlamesRight, FailedAreUnsupported, Idle, Crossing, Sending, Reading, Refreshes
<1>2. TypeOK /\ BlamesRight /\ ~Crossing /\ (Steps \/ UNCHANGED vars) => BlamesRight'
  <2> SUFFICES ASSUME TypeOK, BlamesRight, ~Crossing, Steps \/ UNCHANGED vars PROVE BlamesRight'
    OBVIOUS
  <2>1. CASE Setup
    BY <2>1 DEF Setup, Started, Idle, BlamesRight, FailedAreUnsupported, TypeOK
  <2>2. CASE Hide \/ Toggle \/ HandleNotice \/ LinkDrops \/ OtherCommand \/ UNCHANGED vars
    BY <2>2 DEF Hide, Toggle, HandleNotice, LinkDrops, OtherCommand, entry, state, vars, BlamesRight,
                FailedAreUnsupported
  <2>3. CASE Stop
    <3>1. stored' \subseteq Unsupported
      BY <2>3 DEF Stop, BlamesRight, FailedAreUnsupported
    <3>2. QED
      BY <2>3, <3>1 DEF Stop, Idle, BlamesRight, FailedAreUnsupported
  <2>4. CASE Begin \/ Clear
    <3>1. \A j \in Refreshes : run'[j].saving \subseteq Unsupported
      <4>1. CASE Begin
        BY <4>1 DEF Begin, Started, Idle, BlamesRight, TypeOK
      <4>2. CASE Clear
        BY <4>2 DEF Clear, BlamesRight, TypeOK, Runs
      <4>3. QED BY <2>4, <4>1, <4>2
    <3>2. QED
      BY <2>4, <3>1 DEF Begin, Clear, entry, BlamesRight, FailedAreUnsupported
  <2>5. CASE Cleared
    BY <2>5 DEF Cleared, Started, Idle, BlamesRight, FailedAreUnsupported, TypeOK
  <2>6. ASSUME NEW i \in Refreshes, Connected(i) \/ SkipKnown(i) \/ Answered(i) \/ LostInSplit(i)
        PROVE  BlamesRight'
    <3>1. \A j \in Refreshes : run'[j].saving \subseteq Unsupported
      BY <2>6, SavingUnchanged
    <3>2. FailedAreUnsupported'
      BY <2>6 DEF Connected, SkipKnown, Answered, LostInSplit, entry, BlamesRight,
                  FailedAreUnsupported
    <3>3. QED BY <3>1, <3>2 DEF BlamesRight
  <2>7. ASSUME NEW i \in Refreshes, Refused(i) \/ SendFails(i) \/ LostBeforeBatch(i)
        PROVE  BlamesRight'
    <3>1. GiveUp(i)
      BY <2>7 DEF Refused, SendFails, LostBeforeBatch
    <3>2. QED BY <3>1, SavingUnchanged DEF GiveUp, BlamesRight, FailedAreUnsupported
  <2>8. ASSUME NEW i \in Refreshes, Rejected(i) PROVE BlamesRight'
    <3>1. Asking(i) \in Tasks
      BY <2>8, AskingTyped DEF Rejected, Sending
    <3>2. found' \subseteq Unsupported
      BY <2>8, <3>1, BlameOnlyUnsupported
         DEF Rejected, TakeRejection, OwnAnswer, BlamesRight, FailedAreUnsupported
    <3>3. FailedAreUnsupported'
      BY <2>8, <3>2 DEF Rejected, entry, BlamesRight, FailedAreUnsupported
    <3>4. \A j \in Refreshes : run'[j].saving \subseteq Unsupported
      BY <2>8, SavingUnchanged
    <3>5. QED BY <3>3, <3>4 DEF BlamesRight
  <2>9. ASSUME NEW i \in Refreshes, TimesOut(i) PROVE BlamesRight'
    <3>1. FailedAreUnsupported'
      BY <2>9 DEF TimesOut, entry, BlamesRight, FailedAreUnsupported
    <3>2. \A j \in Refreshes : run'[j].saving \subseteq Unsupported
      BY <2>9, SavingUnchanged
    <3>3. QED BY <3>1, <3>2 DEF BlamesRight
  <2>10. ASSUME NEW i \in Refreshes, Finish(i) PROVE BlamesRight'
    <3>1. coord' \subseteq Unsupported
      BY <2>10 DEF Finish, BlamesRight, FailedAreUnsupported
    <3>2. \A j \in Refreshes : run'[j].saving \subseteq Unsupported
      BY <2>10, <3>1, SavingConcluded, SavingWritten DEF Finish
    <3>3. QED
      BY <2>10, <3>1, <3>2 DEF Finish, BlamesRight, FailedAreUnsupported
  <2>11. ASSUME NEW i \in Refreshes, Saved(i) \/ SaveFails(i) PROVE BlamesRight'
    <3>1. \A j \in Refreshes : run'[j].saving \subseteq Unsupported
      BY <2>11, SavingConcluded DEF Saved, SaveFails
    <3>2. QED
      BY <2>11, <3>1 DEF Saved, SaveFails, BlamesRight, FailedAreUnsupported
  <2>12. QED
    BY <2>1, <2>2, <2>3, <2>4, <2>5, <2>6, <2>7, <2>8, <2>9, <2>10, <2>11, MisledCrosses
       DEF Steps, Proceed
<1>3. TypeOK /\ FailInv /\ [Next]_vars => FailInv'
  <2> SUFFICES ASSUME TypeOK, FailInv, [Next]_vars, ~crossed' PROVE BlamesRight' /\ ~Crossing'
    BY DEF FailInv
  <2>1. CASE Next
    <3>1. Steps /\ ~crossed /\ ~Crossing'
      BY <2>1 DEF Next
    <3>2. QED BY <1>2, <3>1 DEF FailInv
  <2>2. CASE UNCHANGED vars
    <3>1. ~crossed /\ UNCHANGED <<late, locking, link, found, run>>
      BY <2>2 DEF vars, state
    <3>2. ~Crossing'
      BY <3>1 DEF FailInv, Crossing, Sending, Reading, Asking
    <3>3. QED BY <1>2, <2>2, <3>1, <3>2 DEF FailInv
  <2>3. QED BY <2>1, <2>2
<1>4. QED
  BY <1>1, <1>3, TypeCorrect, PTL DEF Spec

\* As long as no answer came late and, where send() takes no lock, no two commands
\* were under way at once: whatever is refused, times out, drops, crashes or runs
\* at the same time, only words the device does not have are held to have failed,
\* in memory or on disk.
THEOREM OnlyUnsupported == Spec => []OnlyUnsupportedFail
<1>1. FailInv => OnlyUnsupportedFail
  BY DEF FailInv, BlamesRight, OnlyUnsupportedFail
<1>2. QED
  BY <1>1, FailAlways, PTL

-----------------------------------------------------------------------------
(* The batches follow the exclusions. *)

\* Whenever no registry event is outstanding, the batches poll exactly what the
\* transaction manager's set and the disabled entities leave.
THEOREM BatchesAreCurrent == Spec => []BatchesCurrent
<1>1. Init => BatchesCurrent
  BY DEF Init, BatchesCurrent
<1>2. BatchesCurrent /\ [Next]_vars => BatchesCurrent'
  <2> SUFFICES ASSUME BatchesCurrent, [Next]_vars PROVE BatchesCurrent'
    OBVIOUS
  <2>1. CASE Setup \/ HandleNotice \/ Stop \/ Cleared
    BY <2>1 DEF Setup, HandleNotice, Stop, Cleared, BatchesCurrent, Current
  <2>2. CASE Hide
    <3>1. CASE disabled' = disabled
      BY <2>2, <3>1 DEF Hide, BatchesCurrent, Current
    <3>2. CASE disabled' # disabled
      BY <2>2, <3>2 DEF Hide, BatchesCurrent
    <3>3. QED BY <3>1, <3>2
  <2>3. CASE Toggle
    BY <2>3 DEF Toggle, BatchesCurrent
  <2>4. CASE Begin \/ LinkDrops \/ OtherCommand \/ Clear \/ UNCHANGED vars
    BY <2>4 DEF Begin, LinkDrops, OtherCommand, Clear, entry, state, vars, BatchesCurrent, Current
  <2>5. ASSUME NEW i \in Refreshes,
               \/ Connected(i) \/ LostInSplit(i) \/ SkipKnown(i) \/ Answered(i)
               \/ Rejected(i) \/ Misled(i) \/ TimesOut(i)
        PROVE  BatchesCurrent'
    BY <2>5 DEF Connected, LostInSplit, SkipKnown, Answered, Rejected, Misled, TimesOut, entry,
                BatchesCurrent, Current
  <2>6. ASSUME NEW i \in Refreshes, Refused(i) \/ SendFails(i) \/ LostBeforeBatch(i)
        PROVE  BatchesCurrent'
    BY <2>6 DEF Refused, SendFails, LostBeforeBatch, GiveUp, BatchesCurrent, Current
  <2>7. ASSUME NEW i \in Refreshes, Finish(i) \/ Saved(i) \/ SaveFails(i) PROVE BatchesCurrent'
    <3>1. phase' = phase \/ phase = "first"
      BY <2>7 DEF Finish, Saved, SaveFails, Conclude, Succeed, Write
    <3>2. QED BY <2>7, <3>1 DEF Finish, Saved, SaveFails, BatchesCurrent, Current
  <2>8. QED
    BY <2>1, <2>2, <2>3, <2>4, <2>5, <2>6, <2>7 DEF Next, Steps, Proceed
<1>3. QED
  BY <1>1, <1>2, PTL DEF Spec

-----------------------------------------------------------------------------
(* The batches the builder makes of a set of registers.                      *)

\* Every register fits into one read.
Sizes(S) == MaxBatch \in Nat /\ MaxGap \in Nat /\ \A a \in S : Length[a] \in 1..MaxBatch

Accs == [batches: Seq([start: Int, count: Int]), end: Int, covered: SUBSET Int]

Nothing == [batches |-> <<>>, end |-> 0, covered |-> {}]

LEMMA SeqAt ==
  ASSUME NEW X, NEW s \in Seq(X), NEW n \in 1..Len(s)
  PROVE  s[n] \in X
OBVIOUS

LEMMA PlaceTyped ==
  ASSUME NEW S \in SUBSET Nat, Sizes(S), NEW acc \in Accs, NEW a \in S
  PROVE  Place(acc, a) \in Accs
<1> DEFINE b == acc.batches
           n == Len(b)
           z == LastWord(a)
           fits == /\ n > 0
                   /\ a - acc.end - 1 <= MaxGap
                   /\ z - b[n].start + 1 <= MaxBatch
<1>1. b \in Seq([start: Int, count: Int]) /\ n \in Nat /\ acc.end \in Int /\ acc.covered \in SUBSET Int
  BY DEF Accs
<1>2. z \in Int /\ a \in Int
  BY DEF Sizes, LastWord
<1>3. Place(acc, a) = IF a \in acc.covered THEN acc
                      ELSE [batches |-> IF fits THEN [b EXCEPT ![n] = Batch(b[n].start, z)]
                                        ELSE Append(b, Batch(a, z)),
                            end |-> z, covered |-> acc.covered \cup a..z]
  BY DEF Place
<1>4. Append(b, Batch(a, z)) \in Seq([start: Int, count: Int])
  <2> HIDE DEF b, z
  <2>1. Batch(a, z) \in [start: Int, count: Int]
    BY <1>2 DEF Batch
  <2> QED
    BY <1>1, <2>1
<1>5. fits => [b EXCEPT ![n] = Batch(b[n].start, z)] \in Seq([start: Int, count: Int])
  <2> SUFFICES ASSUME fits PROVE [b EXCEPT ![n] = Batch(b[n].start, z)] \in Seq([start: Int, count: Int])
    OBVIOUS
  <2>1. n \in 1..Len(b)
    BY <1>1
  <2> HIDE DEF b, z
  <2>2. b[n].start \in Int
    <3>1. b[n] \in [start: Int, count: Int]
      BY <1>1, <2>1, SeqAt, Zenon
    <3> QED
      BY <3>1
  <2>3. Batch(b[n].start, z) \in [start: Int, count: Int]
    BY <1>2, <2>2 DEF Batch
  <2> QED
    BY <1>1, <2>1, <2>3
<1>6. acc.covered \cup a..z \in SUBSET Int
  BY <1>1, <1>2
<1> DEFINE p == [b EXCEPT ![n] = Batch(b[n].start, z)]
           q == Append(b, Batch(a, z))
           v == acc.covered \cup a..z
<1>7. Place(acc, a) = IF a \in acc.covered THEN acc
                      ELSE [batches |-> IF fits THEN p ELSE q, end |-> z, covered |-> v]
  BY <1>3
<1> HIDE DEF b, z, fits, n, p, q, v
<1>8. p \in Seq([start: Int, count: Int]) \/ ~fits
  BY <1>5 DEF p
<1>9. q \in Seq([start: Int, count: Int]) /\ v \in SUBSET Int
  BY <1>4, <1>6 DEF q, v
<1> QED
  BY <1>2, <1>7, <1>8, <1>9 DEF Accs

\* The recursive function exists, so its equations hold.
LEMMA GroupedIs ==
  ASSUME NEW S \in SUBSET Nat, Sizes(S)
  PROVE  /\ Grouped(S) \in [Nat -> Accs] /\ Grouped(S)[0] = Nothing
         /\ \A n \in Nat : Grouped(S)[n + 1] = IF n \in S THEN Place(Grouped(S)[n], n) ELSE Grouped(S)[n]
<1> DEFINE E(n, f) == IF n = 0 THEN Nothing
                      ELSE IF n - 1 \in S THEN Place(f[n - 1], n - 1) ELSE f[n - 1]
           g == [n \in Nat |-> [x \in Accs |-> IF n \in S THEN Place(x, n) ELSE x]]
           f == Recursion(Accs, Nothing, g)
<1>0. g \in [Nat -> [Accs -> Accs]] /\ Nothing \in Accs
  <2>1. \A n \in Nat : \A x \in Accs : (IF n \in S THEN Place(x, n) ELSE x) \in Accs
    BY PlaceTyped
  <2>2. <<>> \in Seq([start: Int, count: Int]) /\ {} \in SUBSET Int
    OBVIOUS
  <2>3. Nothing \in Accs
    BY <2>2 DEF Nothing, Accs
  <2>4. g \in [Nat -> [Accs -> Accs]]
    BY <2>1, Zenon
  <2> QED
    BY <2>3, <2>4
<1> HIDE DEF f
<1>1. f \in [Nat -> Accs] /\ f[0] = Nothing /\ \A n \in Nat : f[n + 1] = g[n][f[n]]
  <2> HIDE DEF g
  <2>1. FollowsRule(Accs, Nothing, g, f)
    BY <1>0, PrimitiveRecursion, Zenon DEF f
  <2> QED
    BY <2>1 DEF FollowsRule
<1>2. \A n \in Nat : f[n + 1] = IF n \in S THEN Place(f[n], n) ELSE f[n]
  <2> SUFFICES ASSUME NEW n \in Nat PROVE f[n + 1] = IF n \in S THEN Place(f[n], n) ELSE f[n]
    OBVIOUS
  <2>1. f[n] \in Accs /\ f[n + 1] = g[n][f[n]]
    BY <1>1
  <2>2. \A x \in Accs : g[n][x] = IF n \in S THEN Place(x, n) ELSE x
    OBVIOUS
  <2> HIDE DEF g
  <2> QED
    BY <2>1, <2>2
<1> HIDE DEF g
<1>3. f = [n \in Nat |-> E(n, f)]
  <2>1. ASSUME NEW n \in Nat PROVE f[n] = E(n, f)
    <3>1. CASE n = 0
      BY <1>1, <3>1
    <3>2. CASE n # 0
      <4>1. n - 1 \in Nat /\ (n - 1) + 1 = n
        BY <3>2
      <4>2. f[(n - 1) + 1] = IF n - 1 \in S THEN Place(f[n - 1], n - 1) ELSE f[n - 1]
        BY <1>2, <4>1
      <4> QED
        BY <3>2, <4>1, <4>2
    <3> QED
      BY <3>1, <3>2
  <2> QED
    BY <1>1, <2>1
<1>4. Grouped(S) = [n \in Nat |-> E(n, Grouped(S))]
  <2>1. Grouped(S) = CHOOSE u : u = [n \in Nat |-> E(n, u)]
    BY DEF Grouped, Nothing
  <2> HIDE DEF E
  <2> QED
    BY <1>3, <2>1, Zenon
<1> DEFINE h == Grouped(S)
<1> HIDE DEF h
<1>5. h = [n \in Nat |-> E(n, h)]
  BY <1>4 DEF h
<1>6. h[0] = Nothing
  BY <1>5
<1>7. \A n \in Nat : h[n + 1] = IF n \in S THEN Place(h[n], n) ELSE h[n]
  BY <1>5
<1>8. \A n \in Nat : h[n] \in Accs
  <2> DEFINE T == {n \in Nat : h[n] \in Accs}
  <2>1. 0 \in T
    BY <1>0, <1>6
  <2>2. \A n \in T : n + 1 \in T
    BY <1>7, PlaceTyped
  <2>3. T \in SUBSET Nat
    OBVIOUS
  <2> HIDE DEF T
  <2>4. T = Nat
    BY <2>1, <2>2, <2>3, Induction
  <2> QED
    BY <2>4 DEF T
<1>9. h \in [Nat -> Accs]
  BY <1>5, <1>8
<1> QED
  BY <1>6, <1>7, <1>9 DEF h

\* A read never runs over more than MaxGap words that no register takes.
Filled(S, b) ==
  \A w \in Words(b) : \E a \in S : \E v \in a..LastWord(a) :
     v \in Words(b) /\ v <= w /\ w <= v + MaxGap

Sound(S, n, b) == b.start \in S /\ b.start < n /\ b.count \in 1..MaxBatch /\ Filled(S, b)

\* One batch ends before the next begins.
Apart(q) == \A m, k \in DOMAIN q : m < k => q[m].start + q[m].count <= q[k].start

\* Where the last batch ends a register ends, and its words are taken.
EndsWell(S, n, acc) ==
  LET z == acc.batches[Len(acc.batches)] IN
  /\ z.start + z.count = acc.end + 1
  /\ \E p \in S : p < n /\ p <= acc.end /\ acc.end = LastWord(p) /\ p..acc.end \subseteq acc.covered

Good(S, n, acc) ==
  /\ acc \in Accs
  /\ \A m \in DOMAIN acc.batches : /\ Sound(S, n, acc.batches[m])
                                   /\ acc.batches[m].start + acc.batches[m].count <= acc.end + 1
  /\ Apart(acc.batches)
  /\ acc.batches # <<>> => EndsWell(S, n, acc)
  /\ \A w \in acc.covered : \E m \in DOMAIN acc.batches : w \in Words(acc.batches[m])
  /\ \A a \in S : a < n => a \in acc.covered

LEMMA BatchIs ==
  ASSUME NEW a \in Int, NEW z \in Int
  PROVE  /\ Batch(a, z) \in [start: Int, count: Int] /\ Batch(a, z).start = a
         /\ Batch(a, z).count = z - a + 1 /\ Words(Batch(a, z)) = a..z
<1>1. Batch(a, z) \in [start: Int, count: Int] /\ Batch(a, z).start = a /\ Batch(a, z).count = z - a + 1
  BY DEF Batch
<1>2. a + (z - a + 1) - 1 = z
  OBVIOUS
<1> QED
  BY <1>1, <1>2 DEF Words

\* A register that is not covered begins a new batch.
LEMMA PlaceNew ==
  ASSUME NEW S \in SUBSET Nat, Sizes(S), NEW n \in S, NEW acc, Good(S, n, acc),
         n \notin acc.covered, NEW new, new \in Accs,
         new.batches = Append(acc.batches, Batch(n, LastWord(n))), new.end = LastWord(n),
         new.covered = acc.covered \cup n..LastWord(n)
  PROVE  Good(S, n + 1, new)
<1> DEFINE b == acc.batches
           e == acc.end
           z == LastWord(n)
           x == Batch(n, z)
           c == new.batches
           N == Len(b)
<1>0. b \in Seq([start: Int, count: Int]) /\ e \in Int /\ N \in Nat /\ n \in Nat /\ DOMAIN b = 1..N
  <2>1. b \in Seq([start: Int, count: Int]) /\ e \in Int /\ n \in Nat
    BY DEF Good, Accs
  <2> QED
    BY <2>1
<1>1. z \in Nat /\ n <= z /\ z - n + 1 \in 1..MaxBatch /\ MaxBatch \in Nat /\ MaxGap \in Nat
  BY <1>0 DEF Sizes, LastWord
<1>2. /\ x \in [start: Int, count: Int] /\ x.start = n /\ x.count = z - n + 1 /\ Words(x) = n..z
  <2>1. n \in Int /\ z \in Int
    BY <1>0, <1>1
  <2> HIDE DEF z
  <2> QED
    BY <2>1, BatchIs, Zenon
<1>3. b # <<>> => e < n
  <2> SUFFICES ASSUME b # <<>> PROVE e < n
    OBVIOUS
  <2>1. PICK p \in S : p < n /\ p <= e /\ p..e \subseteq acc.covered
    BY DEF Good, EndsWell
  <2>2. p \in Nat /\ n \notin p..e
    BY <2>1
  <2> HIDE DEF e
  <2> QED
    BY <1>0, <2>1, <2>2
<1> HIDE DEF x
<1>4. /\ DOMAIN c = 1..(N + 1) /\ Len(c) = N + 1 /\ c[N + 1] = x /\ \A m \in 1..N : c[m] = b[m]
  BY <1>0, <1>2 DEF x
<1>5. \A m \in 1..N : /\ b[m].start \in Nat /\ b[m].start < n /\ b[m].count \in 1..MaxBatch
                      /\ Filled(S, b[m]) /\ b[m].start \in S
                      /\ b[m].start + b[m].count <= e + 1 /\ e < n
  <2> SUFFICES ASSUME NEW m \in 1..N
               PROVE  /\ b[m].start \in Nat /\ b[m].start < n /\ b[m].count \in 1..MaxBatch
                      /\ Filled(S, b[m]) /\ b[m].start \in S
                      /\ b[m].start + b[m].count <= e + 1 /\ e < n
    OBVIOUS
  <2>1. b # <<>>
    BY <1>0
  <2> QED
    BY <1>0, <1>3, <2>1 DEF Good, Sound
<1>6. Filled(S, x)
  <2> SUFFICES ASSUME NEW w \in n..z
               PROVE  \E v \in n..LastWord(n) : v \in n..z /\ v <= w /\ w <= v + MaxGap
    BY <1>2 DEF Filled
  <2> QED
    BY <1>1
<1> HIDE DEF b, e, z, c, N
<1>7. \A m \in DOMAIN c : Sound(S, n + 1, c[m]) /\ c[m].start + c[m].count <= z + 1
  <2> SUFFICES ASSUME NEW m \in 1..(N + 1)
               PROVE  Sound(S, n + 1, c[m]) /\ c[m].start + c[m].count <= z + 1
    BY <1>4
  <2>1. CASE m = N + 1
    BY <1>0, <1>1, <1>2, <1>4, <1>6, <2>1 DEF Sound
  <2>2. CASE m # N + 1
    <3>1. m \in 1..N /\ c[m] = b[m]
      BY <1>0, <1>4, <2>2
    <3>2. /\ b[m].start \in Nat /\ b[m].start < n /\ b[m].count \in 1..MaxBatch
          /\ Filled(S, b[m]) /\ b[m].start \in S
          /\ b[m].start + b[m].count <= e + 1 /\ e < n
      BY <1>5, <3>1
    <3>3. b[m].start < n + 1 /\ b[m].start + b[m].count <= z + 1
      <4> DEFINE u == b[m].start
                 k == b[m].count
      <4>1. /\ u \in Int /\ k \in Int /\ z \in Int /\ n \in Int /\ e \in Int
            /\ u < n /\ u + k <= e + 1 /\ e < n /\ n <= z
        BY <1>0, <1>1, <3>2
      <4> HIDE DEF u, k
      <4>2. u < n + 1 /\ u + k <= z + 1
        BY <4>1
      <4> QED
        BY <4>2 DEF u, k
    <3> QED
      BY <3>1, <3>2, <3>3 DEF Sound
  <2> QED
    BY <2>1, <2>2
<1>8. Apart(c)
  <2> SUFFICES ASSUME NEW m \in 1..(N + 1), NEW k \in 1..(N + 1), m < k
               PROVE  c[m].start + c[m].count <= c[k].start
    BY <1>4 DEF Apart
  <2>1. m \in 1..N /\ c[m] = b[m]
    BY <1>0, <1>4
  <2>2. CASE k = N + 1
    BY <1>0, <1>1, <1>2, <1>4, <1>5, <2>1, <2>2
  <2>3. CASE k # N + 1
    <3>1. k \in 1..N /\ c[k] = b[k]
      BY <1>0, <1>4, <2>3
    <3> QED
      BY <1>0, <2>1, <3>1 DEF Good, Apart, b, N
  <2> QED
    BY <2>2, <2>3
<1>9. EndsWell(S, n + 1, new)
  <2>1. new.batches[Len(new.batches)] = x
    BY <1>4 DEF c
  <2>2. x.start + x.count = z + 1
    BY <1>0, <1>1, <1>2
  <2>3. n < n + 1 /\ n <= z /\ z = LastWord(n) /\ n..z \subseteq new.covered
    BY <1>0, <1>1 DEF z
  <2>4. new.end = z
    BY DEF z
  <2> QED
    BY <2>1, <2>2, <2>3, <2>4 DEF EndsWell
<1>10. \A w \in new.covered : \E m \in DOMAIN c : w \in Words(c[m])
  <2> SUFFICES ASSUME NEW w \in new.covered PROVE \E m \in 1..(N + 1) : w \in Words(c[m])
    BY <1>4
  <2>1. CASE w \in n..z
    <3>1. N + 1 \in 1..(N + 1)
      BY <1>0
    <3>2. w \in Words(c[N + 1])
      BY <1>2, <1>4, <2>1
    <3> QED
      BY <3>1, <3>2
  <2>2. CASE w \in acc.covered
    <3>1. PICK m \in 1..N : w \in Words(b[m])
      BY <1>0, <2>2 DEF Good, b
    <3>2. m \in 1..(N + 1)
      BY <1>0
    <3> QED
      BY <1>4, <3>1, <3>2
  <2> QED
    BY <2>1, <2>2 DEF z
<1>11. \A a \in S : a < n + 1 => a \in new.covered
  <2> SUFFICES ASSUME NEW a \in S, a < n + 1 PROVE a \in new.covered
    OBVIOUS
  <2>1. a \in Nat
    OBVIOUS
  <2>2. CASE a = n
    BY <1>0, <1>1, <2>2 DEF z
  <2>3. CASE a < n
    BY <2>3 DEF Good
  <2> QED
    BY <1>0, <2>1, <2>2, <2>3
<1> QED
  BY <1>7, <1>8, <1>9, <1>10, <1>11 DEF Good, c, z

\* A register that is not covered is taken into the last batch.
LEMMA PlaceFits ==
  ASSUME NEW S \in SUBSET Nat, Sizes(S), NEW n \in S, NEW acc, Good(S, n, acc),
         n \notin acc.covered, Len(acc.batches) > 0, n - acc.end - 1 <= MaxGap,
         LastWord(n) - acc.batches[Len(acc.batches)].start + 1 <= MaxBatch,
         NEW new, new \in Accs,
         new.batches = [acc.batches EXCEPT ![Len(acc.batches)] =
                          Batch(acc.batches[Len(acc.batches)].start, LastWord(n))],
         new.end = LastWord(n), new.covered = acc.covered \cup n..LastWord(n)
  PROVE  Good(S, n + 1, new)
<1> DEFINE b == acc.batches
           e == acc.end
           z == LastWord(n)
           N == Len(b)
           s == b[N].start
           x == Batch(s, z)
           c == new.batches
<1>0. b \in Seq([start: Int, count: Int]) /\ e \in Int /\ N \in Nat \ {0} /\ n \in Nat /\ DOMAIN b = 1..N
  <2>1. b \in Seq([start: Int, count: Int]) /\ e \in Int /\ n \in Nat
    BY DEF Good, Accs
  <2>2. N \in Nat /\ N > 0
    BY <2>1
  <2> HIDE DEF N
  <2>3. N \in Nat \ {0}
    BY <2>2
  <2> QED
    BY <2>1, <2>3 DEF N
<1>1. z \in Nat /\ n <= z /\ MaxBatch \in Nat /\ MaxGap \in Nat
  BY <1>0 DEF Sizes, LastWord
<1>2. b # <<>>
  BY <1>0
<1>3. \A m \in 1..N : /\ b[m].start \in Nat /\ b[m].start < n /\ b[m].count \in 1..MaxBatch
                      /\ Filled(S, b[m]) /\ b[m].start \in S
                      /\ b[m].start + b[m].count <= e + 1
  BY <1>0 DEF Good, Sound
<1>4. N \in 1..N
  BY <1>0
<1>5. s \in Nat /\ s \in S /\ s < n /\ z - s + 1 <= MaxBatch
  BY <1>3, <1>4
<1>6. /\ x \in [start: Int, count: Int] /\ x.start = s /\ x.count = z - s + 1 /\ Words(x) = s..z
  <2>1. s \in Int /\ z \in Int
    BY <1>1, <1>5
  <2> HIDE DEF z, s
  <2> QED
    BY <2>1, BatchIs, Zenon
<1>7. PICK p \in S : p < n /\ p <= e /\ e = LastWord(p) /\ p..e \subseteq acc.covered
  BY <1>2 DEF Good, EndsWell
<1>8. e < n /\ b[N].start + b[N].count = e + 1
  <2>1. b[N].start + b[N].count = e + 1
    BY <1>2 DEF Good, EndsWell
  <2>2. p \in Nat /\ n \notin p..e
    BY <1>7
  <2>3. e < n
    BY <1>0, <1>7, <2>2
  <2> QED
    BY <2>1, <2>3
<1>9. n - e - 1 <= MaxGap
  OBVIOUS
<1> HIDE DEF x, s
<1>10. DOMAIN c = 1..N /\ Len(c) = N /\ c[N] = x /\ \A m \in 1..N : m # N => c[m] = b[m]
  BY <1>0, <1>4 DEF x, s
<1>11. s <= e /\ Words(b[N]) = s..e
  <2> DEFINE k == b[N].count
  <2>1. b[N].start = s /\ k \in 1..MaxBatch /\ s + k = e + 1
    BY <1>3, <1>4, <1>8 DEF s
  <2>2. Words(b[N]) = s..(s + k - 1)
    BY <2>1 DEF Words
  <2> HIDE DEF k
  <2>0. e \in Int /\ s \in Int /\ k \in Int /\ k >= 1
    BY <1>0, <1>5, <2>1
  <2>3. s + k - 1 = e /\ s <= e
    <3> HIDE DEF e, b, N, c, z
    <3> QED
      BY <2>0, <2>1
  <2> QED
    BY <2>2, <2>3
<1>12. Filled(S, x)
  <2> SUFFICES ASSUME NEW w \in s..z
               PROVE  \E a \in S : \E v \in a..LastWord(a) : v \in s..z /\ v <= w /\ w <= v + MaxGap
    BY <1>6 DEF Filled
  <2>1. CASE w \in s..e
    <3>1. PICK a \in S : \E v \in a..LastWord(a) : v \in s..e /\ v <= w /\ w <= v + MaxGap
      BY <1>3, <1>4, <1>11, <2>1 DEF Filled
    <3>2. PICK v \in a..LastWord(a) : v \in s..e /\ v <= w /\ w <= v + MaxGap
      BY <3>1
    <3>3. v \in s..z
      BY <1>0, <1>1, <1>5, <1>8, <3>2
    <3> QED
      BY <3>2, <3>3
  <2>2. CASE w \in (e + 1)..(n - 1)
    <3>0. /\ e \in Int /\ z \in Int /\ s \in Int /\ MaxGap \in Int /\ n \in Int
          /\ e < n /\ n <= z /\ s <= e /\ n - e - 1 <= MaxGap
      BY <1>0, <1>1, <1>5, <1>8, <1>9, <1>11
    <3>1. e \in s..z /\ e <= w /\ w <= e + MaxGap
      <4> HIDE DEF e, b, N, c, z
      <4> QED
        BY <3>0, <2>2
    <3>2. e \in p..LastWord(p)
      <4>1. p \in Nat /\ p <= e /\ LastWord(p) = e
        BY <1>7
      <4>2. e \in p..e
        BY <1>0, <4>1
      <4> QED
        BY <4>1, <4>2
    <3> QED
      BY <3>1, <3>2
  <2>3. CASE w \in n..z
    <3>1. w \in n..LastWord(n) /\ w \in s..z /\ w <= w /\ w <= w + MaxGap
      BY <1>0, <1>1, <1>5, <2>3
    <3> QED
      BY <3>1
  <2>4. w \in s..e \/ w \in (e + 1)..(n - 1) \/ w \in n..z
    BY <1>0, <1>1, <1>5
  <2> QED
    BY <2>1, <2>2, <2>3, <2>4
<1> HIDE DEF b, e, z, c, N
<1>13. \A m \in DOMAIN c : Sound(S, n + 1, c[m]) /\ c[m].start + c[m].count <= z + 1
  <2> SUFFICES ASSUME NEW m \in 1..N
               PROVE  Sound(S, n + 1, c[m]) /\ c[m].start + c[m].count <= z + 1
    BY <1>10
  <2>1. CASE m = N
    <3>1. z - s + 1 \in 1..MaxBatch /\ s < n + 1 /\ s + (z - s + 1) <= z + 1
      BY <1>0, <1>1, <1>5
    <3> QED
      BY <1>5, <1>6, <1>10, <1>12, <2>1, <3>1 DEF Sound
  <2>2. CASE m # N
    <3>1. c[m] = b[m]
      BY <1>10, <2>2
    <3>2. /\ b[m].start \in Nat /\ b[m].start < n /\ b[m].count \in 1..MaxBatch
          /\ Filled(S, b[m]) /\ b[m].start \in S
          /\ b[m].start + b[m].count <= e + 1
      BY <1>3
    <3>3. b[m].start < n + 1 /\ b[m].start + b[m].count <= z + 1
      <4>1. e \in Int /\ z \in Int /\ n \in Nat /\ e <= z /\ MaxBatch \in Nat
        BY <1>0, <1>1, <1>8
      <4>2. b[m].start \in Nat /\ b[m].count \in Nat
        BY <3>2, <4>1
      <4> QED
        BY <3>2, <4>1, <4>2
    <3> QED
      BY <3>1, <3>2, <3>3 DEF Sound
  <2> QED
    BY <2>1, <2>2
<1>14. Apart(c)
  <2> SUFFICES ASSUME NEW m \in 1..N, NEW k \in 1..N, m < k
               PROVE  c[m].start + c[m].count <= c[k].start
    BY <1>10 DEF Apart
  <2>1. m # N /\ c[m] = b[m]
    BY <1>0, <1>10
  <2>2. c[k].start = b[k].start
    BY <1>6, <1>10 DEF s
  <2> QED
    BY <1>0, <2>1, <2>2 DEF Good, Apart, b, N
<1>15. EndsWell(S, n + 1, new)
  <2>1. new.batches[Len(new.batches)] = x
    BY <1>10 DEF c
  <2>2. x.start + x.count = z + 1
    BY <1>1, <1>5, <1>6
  <2>3. n < n + 1 /\ n <= z /\ z = LastWord(n) /\ n..z \subseteq new.covered
    BY <1>0, <1>1 DEF z
  <2>4. new.end = z
    BY DEF z
  <2> QED
    BY <2>1, <2>2, <2>3, <2>4 DEF EndsWell
<1>16. \A w \in new.covered : \E m \in DOMAIN c : w \in Words(c[m])
  <2> SUFFICES ASSUME NEW w \in new.covered PROVE \E m \in 1..N : w \in Words(c[m])
    BY <1>10
  <2>1. CASE w \in n..z
    <3>1. w \in Words(c[N])
      BY <1>0, <1>1, <1>5, <1>6, <1>10, <2>1
    <3> QED
      BY <1>4, <3>1
  <2>2. CASE w \in acc.covered
    <3>1. PICK m \in 1..N : w \in Words(b[m])
      BY <1>0, <2>2 DEF Good, b
    <3>2. CASE m = N
      <4>1. w \in Words(c[N])
        BY <1>0, <1>1, <1>5, <1>6, <1>8, <1>10, <1>11, <3>1, <3>2
      <4> QED
        BY <1>4, <4>1
    <3>3. CASE m # N
      BY <1>10, <3>1, <3>3
    <3> QED
      BY <3>2, <3>3
  <2> QED
    BY <2>1, <2>2 DEF z
<1>17. \A a \in S : a < n + 1 => a \in new.covered
  <2> SUFFICES ASSUME NEW a \in S, a < n + 1 PROVE a \in new.covered
    OBVIOUS
  <2>1. a \in Nat
    OBVIOUS
  <2>2. CASE a = n
    BY <1>0, <1>1, <2>2 DEF z
  <2>3. CASE a < n
    BY <2>3 DEF Good
  <2> QED
    BY <1>0, <2>1, <2>2, <2>3
<1> QED
  BY <1>13, <1>14, <1>15, <1>16, <1>17 DEF Good, c, z

LEMMA PlaceGood ==
  ASSUME NEW S \in SUBSET Nat, Sizes(S), NEW n \in S, NEW acc, Good(S, n, acc)
  PROVE  Good(S, n + 1, Place(acc, n))
<1> DEFINE N == Len(acc.batches)
           s == acc.batches[N].start
           z == LastWord(n)
           fits == N > 0 /\ n - acc.end - 1 <= MaxGap /\ z - s + 1 <= MaxBatch
           new == Place(acc, n)
<1>1. new \in Accs
  BY PlaceTyped DEF Good
<1> SUFFICES Good(S, n + 1, new)
  OBVIOUS
<1>2. CASE n \in acc.covered
  <2>1. new = acc
    BY <1>2 DEF Place
  <2>2. n \in Nat /\ \A a \in S : a \in Nat
    OBVIOUS
  <2>3. \A a \in S : a < n + 1 => a \in acc.covered
    BY <1>2, <2>2 DEF Good
  <2>4. \A m \in DOMAIN acc.batches : Sound(S, n + 1, acc.batches[m])
    <3> SUFFICES ASSUME NEW m \in DOMAIN acc.batches PROVE Sound(S, n + 1, acc.batches[m])
      OBVIOUS
    <3>1. Sound(S, n, acc.batches[m])
      BY DEF Good
    <3> DEFINE b == acc.batches[m]
    <3> HIDE DEF b
    <3>2. Sound(S, n, b) /\ b.start \in Nat
      BY <3>1 DEF Sound, b
    <3>3. Sound(S, n + 1, b)
      BY <2>2, <3>2 DEF Sound
    <3> QED
      BY <3>3 DEF b
  <2>5. acc.batches # <<>> => EndsWell(S, n + 1, acc)
    BY <2>2 DEF Good, EndsWell
  <2> QED
    BY <2>1, <2>3, <2>4, <2>5 DEF Good
<1>3. CASE n \notin acc.covered /\ fits
  <2>1. /\ new.batches = [acc.batches EXCEPT ![N] = Batch(s, z)]
        /\ new.end = z /\ new.covered = acc.covered \cup n..z
    BY <1>3 DEF Place
  <2> HIDE DEF new
  <2> QED
    BY <1>1, <1>3, <2>1, PlaceFits
<1>4. CASE n \notin acc.covered /\ ~fits
  <2>1. /\ new.batches = Append(acc.batches, Batch(n, z))
        /\ new.end = z /\ new.covered = acc.covered \cup n..z
    BY <1>4 DEF Place
  <2> HIDE DEF new
  <2> QED
    BY <1>1, <1>4, <2>1, PlaceNew
<1> QED
  BY <1>2, <1>3, <1>4

LEMMA GroupedGood ==
  ASSUME NEW S \in SUBSET Nat, Sizes(S)
  PROVE  \A n \in Nat : Good(S, n, Grouped(S)[n])
<1> DEFINE T == {n \in Nat : Good(S, n, Grouped(S)[n])}
<1>1. 0 \in T
  <2>1. Grouped(S)[0] = Nothing /\ Grouped(S)[0] \in Accs
    BY GroupedIs
  <2>2. Nothing.batches = <<>> /\ Nothing.covered = {} /\ DOMAIN <<>> = {}
    BY DEF Nothing
  <2>3. \A a \in S : ~(a < 0)
    OBVIOUS
  <2> QED
    BY <2>1, <2>2, <2>3 DEF Good, Apart
<1>2. ASSUME NEW n \in T PROVE n + 1 \in T
  <2>1. n \in Nat /\ Good(S, n, Grouped(S)[n])
    OBVIOUS
  <2>2. Grouped(S)[n + 1] = IF n \in S THEN Place(Grouped(S)[n], n) ELSE Grouped(S)[n]
    BY <2>1, GroupedIs
  <2>3. CASE n \in S
    BY <2>1, <2>2, <2>3, PlaceGood
  <2>4. CASE n \notin S
    <3> DEFINE acc == Grouped(S)[n]
    <3>1. Good(S, n, acc)
      BY <2>1
    <3> HIDE DEF acc
    <3>2. \A a \in S : a < n + 1 => a < n
      BY <2>1, <2>4
    <3>3. \A a \in S : a < n => a < n + 1
      BY <2>1
    <3>4. Good(S, n + 1, acc)
      BY <3>1, <3>2, <3>3 DEF Good, Sound, EndsWell
    <3> QED
      BY <2>1, <2>2, <2>4, <3>4 DEF acc
  <2> QED
    BY <2>3, <2>4
<1>3. T \in SUBSET Nat
  OBVIOUS
<1> HIDE DEF T
<1>4. T = Nat
  BY <1>1, <1>2, <1>3, Induction
<1> QED
  BY <1>4 DEF T

\* batch_builder_service.py: of registers that each fit into one read and lie
\* below some address, the batches take in every one; none is larger than the
\* limit, none runs over more unused words than it may, and no word is in two.
THEOREM BatchesTakeAll ==
  ASSUME NEW S \in SUBSET Nat, Sizes(S), NEW bound \in Nat, \A a \in S : a <= bound
  PROVE  LET q == BuildBatches(S) IN
         /\ q \in Seq([start: S, count: 1..MaxBatch])
         /\ \A a \in S : \E m \in DOMAIN q : a \in Words(q[m])
         /\ \A m \in DOMAIN q : Filled(S, q[m])
         /\ Apart(q)
<1>1. CASE S = {}
  <2>1. BuildBatches(S) = <<>>
    BY <1>1 DEF BuildBatches
  <2>2. <<>> \in Seq([start: S, count: 1..MaxBatch]) /\ DOMAIN <<>> = {}
    OBVIOUS
  <2> QED
    BY <1>1, <2>1, <2>2 DEF Apart
<1>2. CASE S # {}
  <2>1. PICK x \in S : \A y \in S : x >= y
    BY <1>2, Greatest
  <2>2. Max(S) \in S /\ \A y \in S : Max(S) >= y
    BY <2>1 DEF Max
  <2>x. Max(S) + 1 \in Nat /\ \A a \in S : a < Max(S) + 1
    <3> DEFINE m == Max(S)
    <3>1. m \in Nat /\ \A y \in S : y \in Nat /\ m >= y
      BY <2>2
    <3> HIDE DEF m
    <3>2. m + 1 \in Nat /\ \A a \in S : a < m + 1
      BY <3>1
    <3> QED
      BY <3>2 DEF m
  <2> DEFINE n == Max(S) + 1
             acc == Grouped(S)[n]
             q == acc.batches
  <2>3. n \in Nat /\ \A a \in S : a < n
    BY <2>x
  <2>4. Good(S, n, acc)
    BY <2>3, GroupedGood
  <2>5. BuildBatches(S) = q
    BY <1>2 DEF BuildBatches
  <2> HIDE DEF n, acc
  <2>6. \A m \in DOMAIN q : /\ q[m].start \in S /\ q[m].count \in 1..MaxBatch /\ Filled(S, q[m])
    BY <2>4 DEF Good, Sound
  <2>7. q \in Seq([start: Int, count: Int]) /\ Apart(q)
    BY <2>4 DEF Good, Accs
  <2>8. \A a \in S : \E m \in DOMAIN q : a \in Words(q[m])
    BY <2>3, <2>4 DEF Good
  <2> HIDE DEF q
  <2>9. q \in Seq([start: S, count: 1..MaxBatch])
    <3>1. /\ DOMAIN q = 1..Len(q) /\ Len(q) \in Nat /\ q = [m \in 1..Len(q) |-> q[m]]
      BY <2>7
    <3> DEFINE X == [start: S, count: 1..MaxBatch]
    <3>2. \A m \in 1..Len(q) : q[m] \in [start: Int, count: Int]
      BY <2>7, SeqAt, Zenon
    <3>3. \A m \in 1..Len(q) : q[m] = [start |-> q[m].start, count |-> q[m].count]
      BY <3>2
    <3>4. \A m \in 1..Len(q) : q[m] \in [start: S, count: 1..MaxBatch]
      BY <2>6, <3>1, <3>3
    <3>5. \A m \in 1..Len(q) : q[m] \in X
      BY <3>4
    <3> HIDE DEF X
    <3>6. q \in Seq(X)
      BY <3>1, <3>5
    <3> QED
      BY <3>6 DEF X
  <2> QED
    BY <2>5, <2>6, <2>7, <2>8, <2>9
<1> QED
  BY <1>1, <1>2

-----------------------------------------------------------------------------
(* What a refresh without timeouts reads.                                   *)
(* reach[d] bounds the words of a read at depth d: halving reaches single   *)
(* words before the depth is used up.  With at most 32 words to a batch and *)
(* a depth of five, reach[d] is 2^(5 - d).                                  *)

Halves(reach) ==
  /\ reach \in [0..MaxDepth -> Nat] /\ reach[MaxDepth] = 1
  /\ \A d \in 0..MaxDepth : d < MaxDepth => reach[d] <= 2 * reach[d + 1]

\* The batches take in every register, and are not larger than splitting allows.
Batched(reach) ==
  \A S \in SUBSET Registers :
     /\ \A n \in DOMAIN Batches[S] : Batches[S][n].count <= reach[0]
     /\ \A x \in S : \E n \in DOMAIN Batches[S] :
          x \in Batches[S][n].start..(Batches[S][n].start + Batches[S][n].count - 1)

Fine(t, reach) == t.count <= reach[t.depth] /\ (t.kind = "single" => t.count = 1)

Within(q, reach) == \A n \in DOMAIN q : Fine(q[n], reach)

Covers(q, x) == \E n \in DOMAIN q : x \in WordsOf(q[n])

\* What is supported has been read, or will be.
CleanRun(r, reach) ==
  /\ r.pc = "connecting" => r.data = {}
  /\ r.pc = "reading" /\ r.clean =>
       /\ Within(r.todo, reach)
       /\ r.data \subseteq r.asked \ Unsupported
       /\ \A x \in r.asked \ Unsupported : x \in r.data \/ Covers(r.todo, x)

CleanInv(reach) == \A i \in Refreshes : CleanRun(run[i], reach)

\* One list of reads after another.
LEMMA Joined ==
  ASSUME NEW p \in Seq(Tasks), NEW q \in Seq(Tasks), NEW reach
  PROVE  /\ Within(p, reach) /\ Within(q, reach) => Within(p \o q, reach)
         /\ \A x : Covers(p, x) \/ Covers(q, x) => Covers(p \o q, x)
<1>1. /\ DOMAIN p = 1..Len(p) /\ DOMAIN q = 1..Len(q) /\ Len(p) \in Nat /\ Len(q) \in Nat
      /\ DOMAIN (p \o q) = 1..(Len(p) + Len(q))
      /\ \A n \in 1..(Len(p) + Len(q)) : (p \o q)[n] = IF n <= Len(p) THEN p[n] ELSE q[n - Len(p)]
  OBVIOUS
<1>2. ASSUME Within(p, reach), Within(q, reach), NEW n \in DOMAIN (p \o q)
      PROVE  Fine((p \o q)[n], reach)
  <2>1. CASE n <= Len(p)
    BY <1>1, <1>2, <2>1 DEF Within
  <2>2. CASE n > Len(p)
    <3>1. n - Len(p) \in DOMAIN q
      BY <1>1, <2>2
    <3>2. QED BY <1>1, <1>2, <2>2, <3>1 DEF Within
  <2>3. QED BY <1>1, <2>1, <2>2
<1>3. ASSUME NEW x, Covers(p, x)
      PROVE  Covers(p \o q, x)
  <2>1. PICK n \in DOMAIN p : x \in WordsOf(p[n])
    BY <1>3 DEF Covers
  <2>2. n \in DOMAIN (p \o q) /\ (p \o q)[n] = p[n]
    BY <1>1
  <2>3. QED BY <2>1, <2>2 DEF Covers
<1>4. ASSUME NEW x, Covers(q, x)
      PROVE  Covers(p \o q, x)
  <2>1. PICK n \in DOMAIN q : x \in WordsOf(q[n])
    BY <1>4 DEF Covers
  <2>2. n + Len(p) \in DOMAIN (p \o q) /\ (p \o q)[n + Len(p)] = q[n]
    BY <1>1
  <2>3. QED BY <2>1, <2>2 DEF Covers
<1>5. QED BY <1>2, <1>3, <1>4 DEF Within

\* The first of a list of reads, and the rest.
LEMMA Parted ==
  ASSUME NEW q \in Seq(Tasks), q # <<>>, NEW reach
  PROVE  /\ Within(q, reach) => Fine(Head(q), reach) /\ Within(Tail(q), reach)
         /\ \A x : Covers(q, x) => x \in WordsOf(Head(q)) \/ Covers(Tail(q), x)
<1>1. /\ DOMAIN q = 1..Len(q) /\ Len(q) \in Nat \ {0} /\ Head(q) = q[1]
      /\ Tail(q) \in Seq(Tasks) /\ DOMAIN Tail(q) = 1..(Len(q) - 1)
      /\ \A n \in 1..(Len(q) - 1) : Tail(q)[n] = q[n + 1]
  OBVIOUS
<1>2. ASSUME Within(q, reach)
      PROVE  Fine(Head(q), reach) /\ Within(Tail(q), reach)
  BY <1>1, <1>2 DEF Within
<1>3. ASSUME NEW x, Covers(q, x)
      PROVE  x \in WordsOf(Head(q)) \/ Covers(Tail(q), x)
  <2>1. PICK n \in DOMAIN q : x \in WordsOf(q[n])
    BY <1>3 DEF Covers
  <2>2. CASE n = 1
    BY <1>1, <2>1, <2>2
  <2>3. CASE n # 1
    <3>1. n - 1 \in DOMAIN Tail(q) /\ Tail(q)[n - 1] = q[n]
      BY <1>1, <2>3
    <3>2. QED BY <2>1, <3>1 DEF Covers
  <2>4. QED BY <2>2, <2>3
<1>4. QED BY <1>2, <1>3

LEMMA HalfReads ==
  ASSUME NEW S \in SUBSET Registers, NEW a \in Nat, NEW n \in Nat \ {0}, NEW d \in 0..MaxDepth,
         NEW reach, n <= reach[d]
  PROVE  /\ Within(Half(S, a, n, d), reach)
         /\ \A x \in S \cap a..(a + n - 1) : Covers(Half(S, a, n, d), x)
<1> DEFINE t == [kind |-> "half", start |-> a, count |-> n, depth |-> d]
<1>1. Fine(t, reach) /\ WordsOf(t) = a..(a + n - 1)
  BY DEF Fine, WordsOf
<1>2. CASE S \cap a..(a + n - 1) = {}
  BY <1>2 DEF Half, Within
<1>3. CASE S \cap a..(a + n - 1) # {}
  <2>1. Half(S, a, n, d) = <<t>>
    BY <1>3 DEF Half
  <2>2. DOMAIN <<t>> = {1} /\ <<t>>[1] = t
    OBVIOUS
  <2> HIDE DEF t
  <2>3. QED BY <1>1, <2>1, <2>2 DEF Within, Covers
<1>4. QED BY <1>2, <1>3

\* A read of several words that fails is read again in pieces, nothing left out.
LEMMA SplitReads ==
  ASSUME NEW reach, Halves(reach), NEW S \in SUBSET Registers, NEW t \in Tasks, Fine(t, reach)
  PROVE  /\ Within(Split(S, t), reach)
         /\ t.count # 1 => \A x \in S \cap WordsOf(t) : Covers(Split(S, t), x)
<1>0. t.count \in Nat \ {0} /\ t.start \in Nat /\ t.depth \in 0..MaxDepth
  BY DEF Tasks
<1>1. CASE t.count = 1
  <2>1. CASE t.kind = "single" \/ t.depth >= MaxDepth
    BY <1>1, <2>1 DEF Split, Within
  <2>2. CASE ~(t.kind = "single" \/ t.depth >= MaxDepth)
    <3> DEFINE u == [t EXCEPT !.kind = "single"]
    <3>1. u \in Tasks /\ u.count = 1 /\ u.depth = t.depth
      BY <1>1 DEF Tasks
    <3>2. Split(S, t) = <<u>>
      BY <1>1, <2>2 DEF Split
    <3> HIDE DEF u
    <3>3. DOMAIN <<u>> = {1} /\ <<u>>[1] = u
      OBVIOUS
    <3>4. Fine(u, reach)
      BY <1>1, <3>1 DEF Fine
    <3>5. QED BY <1>1, <3>2, <3>3, <3>4 DEF Within
  <2>3. QED BY <2>1, <2>2
<1>2. CASE t.count # 1
  <2>1. t.depth < MaxDepth /\ t.kind # "single"
    <3>1. t.depth = MaxDepth => reach[t.depth] = 1
      BY DEF Halves
    <3>2. t.count <= reach[t.depth] /\ (t.kind = "single" => t.count = 1)
      BY DEF Fine
    <3>3. t.depth # MaxDepth
      BY <1>0, <1>2, <3>1, <3>2
    <3>4. QED BY <1>0, <1>2, <3>2, <3>3, ConstantsTyped
  <2> DEFINE h == t.count \div 2
             a == Half(S, t.start, h, t.depth + 1)
             b == Half(S, t.start + h, t.count - h, t.depth + 1)
  <2>2. Split(S, t) = a \o b
    BY <1>2, <2>1, <1>0, ConstantsTyped DEF Split
  <2>3. h \in Nat \ {0} /\ t.count - h \in Nat \ {0} /\ t.depth + 1 \in 0..MaxDepth
    <3>1. \A c \in Nat \ {0, 1} : c \div 2 \in Nat \ {0} /\ c - c \div 2 \in Nat \ {0}
      OBVIOUS
    <3>2. t.depth + 1 \in 0..MaxDepth
      BY <1>0, <2>1, ConstantsTyped
    <3>3. QED BY <1>0, <1>2, <3>1, <3>2
  <2>4. h <= reach[t.depth + 1] /\ t.count - h <= reach[t.depth + 1]
    <3>1. reach[t.depth + 1] \in Nat /\ t.count <= 2 * reach[t.depth + 1]
      <4>1. reach[t.depth] \in Nat /\ reach[t.depth + 1] \in Nat
        BY <1>0, <2>3 DEF Halves
      <4>2. reach[t.depth] <= 2 * reach[t.depth + 1]
        BY <1>0, <2>1 DEF Halves
      <4>3. t.count <= reach[t.depth]
        BY DEF Fine
      <4>4. QED BY <1>0, <4>1, <4>2, <4>3
    <3>2. QED BY <1>0, <3>1
  <2> HIDE DEF h
  <2>5. a \in Seq(Tasks) /\ b \in Seq(Tasks)
    BY <1>0, <2>3, HalfTyped
  <2>6. /\ Within(a, reach) /\ Within(b, reach)
        /\ \A x \in S \cap t.start..(t.start + h - 1) : Covers(a, x)
        /\ \A x \in S \cap (t.start + h)..(t.start + h + (t.count - h) - 1) : Covers(b, x)
    <3>1. \A m \in Nat, n \in Nat \ {0}, d \in 0..MaxDepth : n <= reach[d] =>
            /\ Within(Half(S, m, n, d), reach)
            /\ \A x \in S \cap m..(m + n - 1) : Covers(Half(S, m, n, d), x)
      BY HalfReads
    <3>2. t.start + h \in Nat
      BY <1>0, <2>3
    <3>3. /\ Within(a, reach)
          /\ \A x \in S \cap t.start..(t.start + h - 1) : Covers(a, x)
      BY <1>0, <2>3, <2>4, <3>1
    <3>4. /\ Within(b, reach)
          /\ \A x \in S \cap (t.start + h)..(t.start + h + (t.count - h) - 1) : Covers(b, x)
      BY <2>3, <2>4, <3>1, <3>2
    <3>5. QED BY <3>3, <3>4
  <2>7. \A x \in S \cap WordsOf(t) : Covers(a, x) \/ Covers(b, x)
    <3>1. \A x \in WordsOf(t) : \/ x \in t.start..(t.start + h - 1)
                               \/ x \in (t.start + h)..(t.start + h + (t.count - h) - 1)
      BY <1>0, <2>3 DEF WordsOf
    <3>2. QED BY <2>6, <3>1
  <2> HIDE DEF a, b
  <2>8. QED BY <2>2, <2>5, <2>6, <2>7, Joined
<1>3. QED BY <1>1, <1>2

LEMMA BatchReads ==
  ASSUME NEW reach, Halves(reach), Batched(reach), NEW S \in SUBSET Registers
  PROVE  /\ Within(BatchTasks(S), reach)
         /\ \A x \in S : Covers(BatchTasks(S), x)
<1>1. DOMAIN BatchTasks(S) = DOMAIN Batches[S]
  BY DEF BatchTasks
<1>2. \A n \in DOMAIN Batches[S] :
        LET t == BatchTasks(S)[n] IN
        /\ t.kind = "batch" /\ t.depth = 0
        /\ t.start = Batches[S][n].start /\ t.count = Batches[S][n].count
  BY DEF BatchTasks
<1>3. Within(BatchTasks(S), reach)
  BY <1>1, <1>2 DEF Within, Fine, Batched
<1>4. \A x \in S : Covers(BatchTasks(S), x)
  BY <1>1, <1>2 DEF Covers, WordsOf, Batched
<1>5. QED BY <1>3, <1>4

\* What the refreshes do to each other's reads: nothing.
LEMMA OthersClean ==
  ASSUME NEW reach, TypeOK, CleanInv(reach), NEW i \in Refreshes, NEW r,
         run' = [run EXCEPT ![i] = r], CleanRun(r, reach)
  PROVE  CleanInv(reach)'
<1>1. \A j \in Refreshes : CleanRun(run'[j], reach)
  BY DEF TypeOK, CleanInv
<1>2. QED BY <1>1 DEF CleanInv, CleanRun, Within, Covers, Fine, WordsOf

\* A refresh that is not reading has nothing to keep to.
LEMMA RestClean ==
  ASSUME NEW reach, NEW r, r.pc \notin {"connecting", "reading"} \/ r = Idle
                           \/ \E S : r = Started(S)
  PROVE  CleanRun(r, reach)
<1>1. /\ Idle.pc = "idle"
      /\ \A S : Started(S).pc = "connecting" /\ Started(S).data = {}
  BY DEF Idle, Started
<1>2. CASE r.pc \notin {"connecting", "reading"}
  BY <1>2 DEF CleanRun
<1>3. CASE r = Idle
  BY <1>1, <1>3 DEF CleanRun
<1>4. ASSUME NEW S, r = Started(S)
      PROVE  CleanRun(r, reach)
  <2>1. r.pc = "connecting" /\ r.data = {}
    BY <1>1, <1>4
  <2>2. QED BY <2>1 DEF CleanRun
<1>5. QED BY <1>2, <1>3, <1>4

LEMMA EndClean ==
  ASSUME NEW reach, TypeOK, CleanInv(reach), NEW i \in Refreshes,
         GiveUp(i) \/ Succeed(i) \/ Conclude(i)
         \/ \E why \in {"saving", "learning"}, S \in SUBSET Registers : Write(i, why, S)
  PROVE  CleanInv(reach)'
<1>1. CASE run' = [run EXCEPT ![i] = Idle]
  BY <1>1, RestClean, OthersClean
<1>2. ASSUME NEW why \in {"saving", "learning"}, NEW S, Write(i, why, S)
      PROVE  CleanInv(reach)'
  <2>1. run' = [run EXCEPT ![i] = [run[i] EXCEPT !.pc = why, !.saving = S]]
    BY <1>2 DEF Write, TypeOK
  <2>2. [run[i] EXCEPT !.pc = why, !.saving = S].pc = why
    BY DEF TypeOK, Runs
  <2>3. QED BY <2>1, <2>2, RestClean, OthersClean
<1>3. QED BY <1>1, <1>2 DEF GiveUp, Succeed, Conclude

\* A read that is refused, or not made, is read again in pieces; one of a
\* single word is refused only if the device does not have it.
LEMMA SplitClean ==
  ASSUME NEW reach, Halves(reach), TypeOK, BlamesRight, CleanInv(reach), NEW i \in Refreshes,
         SkipKnown(i) \/ Rejected(i)
  PROVE  CleanInv(reach)'
<1> DEFINE t == Asking(i)
           q == Split(run[i].asked, t)
           rest == Tail(run[i].todo)
           r == [run[i] EXCEPT !.todo = q \o rest]
<1>1. /\ run[i] \in Runs /\ Reading(i) /\ t \in Tasks /\ run[i].asked \in SUBSET Registers
      /\ rest \in Seq(Tasks) /\ run[i].todo \in Seq(Tasks) /\ run[i].todo # <<>>
      /\ t = Head(run[i].todo)
  BY AskingTyped DEF SkipKnown, Rejected, Sending, Reading, TypeOK, Runs, Asking
<1>2. run' = [run EXCEPT ![i] = r]
  BY <1>1 DEF SkipKnown, Rejected, TakeRejection, Asking, TypeOK, Runs
<1>3. /\ r.pc = "reading" /\ r.todo = q \o rest /\ r.data = run[i].data
      /\ r.asked = run[i].asked /\ r.clean = run[i].clean
  BY <1>1 DEF Runs, Reading
<1>4. t.count = 1 => t.start \in Unsupported /\ WordsOf(t) = {t.start}
  <2>1. t.count = 1 => WordsOf(t) = {t.start}
    BY <1>1 DEF WordsOf, Tasks
  <2>2. CASE SkipKnown(i)
    BY <2>1, <2>2 DEF SkipKnown, BlamesRight, FailedAreUnsupported
  <2>3. CASE Rejected(i)
    BY <2>1, <2>3 DEF Rejected, OwnAnswer
  <2>4. QED BY <2>2, <2>3
<1> HIDE DEF r, q, rest, t
<1>5. CASE ~run[i].clean
  BY <1>2, <1>3, <1>5, OthersClean DEF CleanRun
<1>6. CASE run[i].clean
  <2>1. /\ Within(run[i].todo, reach) /\ run[i].data \subseteq run[i].asked \ Unsupported
        /\ \A x \in run[i].asked \ Unsupported : x \in run[i].data \/ Covers(run[i].todo, x)
    BY <1>1, <1>6 DEF CleanInv, CleanRun, Reading
  <2>2. Fine(t, reach) /\ Within(rest, reach)
    BY <1>1, <2>1, Parted DEF rest
  <2>3. q \in Seq(Tasks)
    BY <1>1, SplitTyped DEF q
  <2>4. /\ Within(q, reach)
        /\ t.count # 1 => \A x \in run[i].asked \cap WordsOf(t) : Covers(q, x)
    BY <1>1, <2>2, SplitReads DEF q
  <2>5. /\ Within(q \o rest, reach)
        /\ \A x : Covers(q, x) \/ Covers(rest, x) => Covers(q \o rest, x)
    BY <1>1, <2>2, <2>3, <2>4, Joined
  <2>6. ASSUME NEW x \in run[i].asked \ Unsupported, x \notin run[i].data
        PROVE  Covers(q \o rest, x)
    <3>1. x \in WordsOf(t) \/ Covers(rest, x)
      BY <1>1, <2>1, <2>6, Parted DEF rest
    <3>2. CASE x \in WordsOf(t)
      BY <1>4, <2>4, <2>5, <2>6, <3>2
    <3>3. QED BY <2>5, <3>1, <3>2
  <2>7. CleanRun(r, reach)
    BY <1>3, <2>1, <2>5, <2>6 DEF CleanRun
  <2>8. QED BY <1>2, <2>7, OthersClean
<1>7. QED BY <1>5, <1>6

LEMMA AnsweredClean ==
  ASSUME NEW reach, TypeOK, CleanInv(reach), NEW i \in Refreshes, Answered(i)
  PROVE  CleanInv(reach)'
<1> DEFINE t == Asking(i)
           rest == Tail(run[i].todo)
           data == run[i].data \cup (run[i].asked \cap WordsOf(t))
           r == [run[i] EXCEPT !.data = data, !.todo = rest]
<1>1. /\ run[i] \in Runs /\ Reading(i)
      /\ rest \in Seq(Tasks) /\ run[i].todo \in Seq(Tasks) /\ run[i].todo # <<>>
      /\ t = Head(run[i].todo) /\ WordsOf(t) \cap Unsupported = {}
  BY AskingTyped DEF Answered, OwnAnswer, Sending, Reading, TypeOK, Runs, Asking
<1>2. run' = [run EXCEPT ![i] = r]
  BY <1>1 DEF Answered, TakeValues, TypeOK, Runs
<1> HIDE DEF data
<1>3. /\ r.pc = "reading" /\ r.todo = rest /\ r.data = data
      /\ r.asked = run[i].asked /\ r.clean = run[i].clean
  BY <1>1 DEF Runs, Reading
<1> HIDE DEF r, rest, t
<1>4. CASE ~run[i].clean
  BY <1>2, <1>3, <1>4, OthersClean DEF CleanRun
<1>5. CASE run[i].clean
  <2>1. /\ Within(run[i].todo, reach) /\ run[i].data \subseteq run[i].asked \ Unsupported
        /\ \A x \in run[i].asked \ Unsupported : x \in run[i].data \/ Covers(run[i].todo, x)
    BY <1>1, <1>5 DEF CleanInv, CleanRun, Reading
  <2>2. Within(rest, reach) /\ \A x : Covers(run[i].todo, x) => x \in WordsOf(t) \/ Covers(rest, x)
    BY <1>1, <2>1, Parted DEF rest
  <2>3. CleanRun(r, reach)
    BY <1>1, <1>3, <2>1, <2>2 DEF CleanRun, data
  <2>4. QED BY <1>2, <2>3, OthersClean
<1>6. QED BY <1>4, <1>5

LEMMA ConnectedClean ==
  ASSUME NEW reach, Halves(reach), Batched(reach), TypeOK, CleanInv(reach),
         NEW i \in Refreshes, Connected(i)
  PROVE  CleanInv(reach)'
<1> DEFINE b == BatchTasks(run[i].asked)
           r == [run[i] EXCEPT !.pc = "reading", !.todo = b]
<1>1. run[i] \in Runs /\ run[i].asked \in SUBSET Registers /\ run[i].pc = "connecting"
  BY DEF TypeOK, Runs, Connected
<1>2. Within(b, reach) /\ \A x \in run[i].asked : Covers(b, x)
  BY <1>1, BatchReads
<1> HIDE DEF b
<1>3. run' = [run EXCEPT ![i] = r]
  BY <1>1 DEF Connected, TypeOK, b
<1>4. r.todo = b /\ r.data = run[i].data /\ r.asked = run[i].asked /\ r.pc = "reading"
  BY <1>1 DEF Runs
<1>5. run[i].data = {}
  BY <1>1 DEF CleanInv, CleanRun
<1> HIDE DEF r
<1>6. CleanRun(r, reach)
  BY <1>2, <1>4, <1>5 DEF CleanRun
<1>7. QED BY <1>3, <1>6, OthersClean

\* A refresh that has seen a timeout or a lost link no longer counts.
LEMMA TroubledClean ==
  ASSUME NEW reach, TypeOK, CleanInv(reach), NEW i \in Refreshes, TimesOut(i) \/ LostInSplit(i)
  PROVE  CleanInv(reach)'
<1>1. run[i] \in Runs /\ run[i].pc = "reading"
  BY DEF TypeOK, TimesOut, LostInSplit, Sending, Reading
<1>2. PICK q : run' = [run EXCEPT ![i] = [run[i] EXCEPT !.todo = q, !.clean = FALSE]]
  BY DEF TimesOut, LostInSplit, TypeOK
<1> DEFINE r == [run[i] EXCEPT !.todo = q, !.clean = FALSE]
<1>3. r.pc = "reading" /\ ~r.clean
  BY <1>1 DEF Runs
<1> HIDE DEF r
<1>4. CleanRun(r, reach)
  BY <1>3 DEF CleanRun
<1>5. QED BY <1>2, <1>4, OthersClean DEF r

LEMMA CleanNext ==
  ASSUME NEW reach, Halves(reach), Batched(reach)
  PROVE  TypeOK /\ BlamesRight /\ ~Crossing /\ CleanInv(reach) /\ (Steps \/ UNCHANGED vars)
           => CleanInv(reach)'
<1> SUFFICES ASSUME TypeOK, BlamesRight, ~Crossing, CleanInv(reach), Steps \/ UNCHANGED vars
             PROVE  CleanInv(reach)'
  OBVIOUS
<1>1. CASE UNCHANGED run
  BY <1>1 DEF CleanInv, CleanRun, Within, Covers, Fine, WordsOf
<1>2. CASE Hide \/ Toggle \/ HandleNotice \/ LinkDrops \/ OtherCommand \/ UNCHANGED vars
  BY <1>1, <1>2 DEF Hide, Toggle, HandleNotice, LinkDrops, OtherCommand, vars, state
<1>3. CASE Setup \/ Begin \/ Cleared
  <2>1. PICK i \in Refreshes : \E S : run' = [run EXCEPT ![i] = Started(S)]
    BY <1>3 DEF Setup, Begin, Cleared, Refreshes
  <2>2. QED BY <2>1, RestClean, OthersClean
<1>4. CASE Stop
  <2>1. \A i \in Refreshes : run'[i] = Idle
    BY <1>4 DEF Stop
  <2>2. QED BY <2>1 DEF CleanInv, CleanRun, Idle
<1>5. CASE Clear
  <2>1. run' = [run EXCEPT !["forced"] = [run["forced"] EXCEPT !.pc = "removing"]]
    BY <1>5 DEF Clear
  <2>2. "forced" \in Refreshes /\ run["forced"] \in Runs
    BY DEF Refreshes, TypeOK
  <2>3. [run["forced"] EXCEPT !.pc = "removing"].pc = "removing"
    BY <2>2 DEF Runs
  <2>4. QED BY <2>1, <2>2, <2>3, RestClean, OthersClean
<1>6. ASSUME NEW i \in Refreshes,
             Refused(i) \/ SendFails(i) \/ LostBeforeBatch(i) \/ Saved(i) \/ SaveFails(i)
      PROVE  CleanInv(reach)'
  BY <1>6, EndClean DEF Refused, SendFails, LostBeforeBatch, Saved, SaveFails
<1>7. ASSUME NEW i \in Refreshes, Finish(i)
      PROVE  CleanInv(reach)'
  <2>1. coord' \in SUBSET Registers
    BY <1>7 DEF Finish, TypeOK
  <2>2. QED BY <1>7, <2>1, EndClean DEF Finish
<1>8. QED
  BY <1>2, <1>3, <1>4, <1>5, <1>6, <1>7, SplitClean, AnsweredClean, ConnectedClean, TroubledClean,
     MisledCrosses DEF Steps, Proceed

\* refresh_data_use_case.py: a refresh that saw neither a timeout nor a lost link
\* hands over exactly the supported registers it was asked for, whichever the
\* device lacks and however the two refreshes come in each other's way: given
\* batches that take in every register and are small enough for the depth of
\* splitting, and as long as no answer can be taken for another's.
THEOREM CleanIsComplete ==
  ASSUME NEW reach, Halves(reach), Batched(reach)
  PROVE  Spec => []CleanRefreshComplete
<1> DEFINE Inv == ~crossed => CleanInv(reach)
<1>1. Init => Inv
  BY RestClean DEF Init, CleanInv
<1>2. TypeOK /\ FailInv /\ Inv /\ [Next]_vars => Inv'
  <2> SUFFICES ASSUME TypeOK, FailInv, Inv, [Next]_vars, ~crossed' PROVE CleanInv(reach)'
    OBVIOUS
  <2>1. ~crossed /\ (Steps \/ UNCHANGED vars)
    <3>1. CASE Next
      BY <3>1 DEF Next
    <3>2. CASE UNCHANGED vars
      <4>1. crossed' = crossed
        BY <3>2 DEF vars
      <4>2. QED BY <3>2, <4>1
    <3>3. QED BY <3>1, <3>2
  <2>2. QED BY <2>1, CleanNext DEF FailInv
<1>3. Inv => CleanRefreshComplete
  BY DEF CleanInv, CleanRun, CleanRefreshComplete, Covers
<1>4. QED
  BY <1>1, <1>2, <1>3, TypeCorrect, FailAlways, PTL DEF Spec

\* The builder's batches are such: the words of a register are never left out,
\* and no batch is larger than it allows.
LEMMA BuilderBatched ==
  ASSUME NEW reach, Halves(reach), MaxBatch <= reach[0], Sizes(Registers),
         Batches = [S \in SUBSET Registers |-> BuildBatches(S)],
         NEW bound \in Nat, \A a \in Registers : a <= bound
  PROVE  Batched(reach)
<1> SUFFICES ASSUME NEW S \in SUBSET Registers
             PROVE  /\ \A n \in DOMAIN Batches[S] : Batches[S][n].count <= reach[0]
                    /\ \A x \in S : \E n \in DOMAIN Batches[S] :
                         x \in Batches[S][n].start..(Batches[S][n].start + Batches[S][n].count - 1)
  BY DEF Batched
<1> DEFINE q == BuildBatches(S)
<1>1. Sizes(S) /\ S \in SUBSET Nat /\ \A a \in S : a <= bound
  BY ConstantsTyped DEF Sizes
<1>2. /\ q \in Seq([start: S, count: 1..MaxBatch])
      /\ \A a \in S : \E m \in DOMAIN q : a \in Words(q[m])
  BY <1>1, BatchesTakeAll
<1>3. Batches[S] = q
  OBVIOUS
<1>4. reach[0] \in Nat /\ MaxBatch \in Nat
  BY <1>1, ConstantsTyped DEF Halves, Sizes
<1> HIDE DEF q
<1>5. \A n \in DOMAIN q : q[n] \in [start: S, count: 1..MaxBatch]
  BY <1>2, SeqElements, Zenon
<1>6. \A n \in DOMAIN q : q[n].count <= reach[0]
  BY <1>4, <1>5
<1> QED
  BY <1>2, <1>3, <1>6 DEF Words

\* batch_builder_service.py and refresh_data_use_case.py together: with the batches
\* the builder makes, of registers that fit into one read each, and a depth of
\* splitting that takes its largest batch down to single words, a refresh that saw
\* neither a timeout nor a lost link hands over exactly the supported registers.
THEOREM CleanWhenBuilt ==
  ASSUME NEW reach, Halves(reach), MaxBatch <= reach[0],
         Sizes(Registers), Batches = [S \in SUBSET Registers |-> BuildBatches(S)],
         NEW bound \in Nat, \A a \in Registers : a <= bound
  PROVE  Spec => []CleanRefreshComplete
BY BuilderBatched, CleanIsComplete

\* The same of the code's own numbers: at most 32 words to a batch, MAX_SPLIT_DEPTH
\* of five.
THEOREM CleanAsShipped ==
  ASSUME MaxDepth = 5, MaxBatch = 32,
         Sizes(Registers), Batches = [S \in SUBSET Registers |-> BuildBatches(S)],
         NEW bound \in Nat, \A a \in Registers : a <= bound
  PROVE  Spec => []CleanRefreshComplete
<1> DEFINE reach == [d \in 0..MaxDepth |-> CASE d = 0 -> 32 [] d = 1 -> 16 [] d = 2 -> 8
                                             [] d = 3 -> 4 [] d = 4 -> 2 [] d = 5 -> 1]
<1>1. \A d \in 0..MaxDepth : d \in {0, 1, 2, 3, 4, 5}
  OBVIOUS
<1>2. /\ reach[0] = 32 /\ reach[1] = 16 /\ reach[2] = 8 /\ reach[3] = 4
      /\ reach[4] = 2 /\ reach[5] = 1
  OBVIOUS
<1>3. reach \in [0..MaxDepth -> Nat]
  BY <1>1
<1> HIDE DEF reach
<1>4. \A d \in 0..MaxDepth : d < MaxDepth => reach[d] <= 2 * reach[d + 1]
  <2>1. ASSUME NEW d \in {0, 1, 2, 3, 4} PROVE reach[d] <= 2 * reach[d + 1]
    BY <1>2, <2>1
  <2> QED
    BY <1>1, <2>1
<1>5. Halves(reach) /\ MaxBatch <= reach[0]
  BY <1>2, <1>3, <1>4 DEF Halves
<1> QED
  BY <1>5, CleanWhenBuilt
=============================================================================
