------------------------- MODULE CommLink_proof -------------------------
(***************************************************************************)
(* Proofs about CommLink: whatever fails on the bus, whatever is reset and *)
(* however the comm task and the mission loop interleave, frames are read, *)
(* handled and removed as they should be and the idle state has an owner.  *)
(***************************************************************************)
EXTENDS CommLink, FiniteSetTheorems, TLAPS

-----------------------------------------------------------------------------
(* The inductive invariant *)

(* The places of the two tasks.                                             *)
CommPcs == {"count", "get", "handle", "enter", "enter hw", "enter flag", "enter time", "remove",
            "kick", "wait"}
MissionPcs == {"determine", "time", "changed", "shift", "comm", "leave hw", "eps", "wait ping"}
Locked == {"enter hw", "enter flag", "enter time"}
Entering == Locked \cup {"enter"}
Done == Entering \cup {"remove"}
Busy == Done \cup {"get", "handle"}

(* The tasks; the frame being handled is in the receiver.                   *)
TasksOK ==
    /\ comm \in [pc : CommPcs, left : 0 .. ReceiverBufferSize, tries : 0 .. RetryCount,
                 anyFrame : BOOLEAN, off : Int]
    /\ mission \in [pc : MissionPcs, due : BOOLEAN, shift : -1 .. 1, off : Int]
    /\ ping \in BOOLEAN
    /\ comm.pc \in Busy => comm.left >= 1 /\ comm.left <= Len(rx)
    /\ comm.pc = "get" => comm.tries >= 1

(* Frames have numbers of their own.                                        *)
FramesOK ==
    /\ rx \in Seq(Frames) /\ Len(rx) <= ReceiverBufferSize /\ stuck \in BOOLEAN
    /\ arrived \in 0 .. MaxFrames /\ readable \subseteq 1 .. arrived /\ handled \subseteq 1 .. arrived
    /\ \A i \in 1 .. Len(rx) :
          /\ rx[i].id <= arrived /\ (rx[i].kind = "damaged" <=> rx[i].id \notin readable)
          /\ \A j \in 1 .. Len(rx) : i < j => rx[i].id < rx[j].id

(* Every frame lost was paid for with RetryCount failed attempts, and the   *)
(* first frame, while it is unread, with those already spent on it.        *)
Lost == readable \ (handled \cup {f.id : f \in ToSet(rx)} \cup flushed)
Unread == rx # <<>> /\ rx[1].kind # "damaged" /\ rx[1].id \notin handled
Spent == IF ~Unread THEN 0 ELSE
         IF comm.pc = "get" THEN RetryCount - comm.tries ELSE
         IF comm.pc = "remove" THEN RetryCount ELSE 0
LossesPaid ==
    /\ readFailures \in Nat /\ RetryCount * Cardinality(Lost) + Spent <= readFailures
    /\ comm.pc \in Entering => ~Unread

(* A frame still in the receiver whose handler was called could not be      *)
(* removed, unless it is the one about to be.                              *)
Repeats ==
    ~restartFailed =>
        /\ repeated \subseteq removeFailed
        /\ \A i \in 1 .. Len(rx) :
              rx[i].id \in handled => rx[i].id \in removeFailed \/ (i = 1 /\ comm.pc \in Done)

(* The lock is held where the code holds it, and the flag is set before the *)
(* comm task gives the lock back.                                          *)
IdleOK ==
    /\ hwIdle \in BOOLEAN /\ idleState \in BOOLEAN /\ restartFailed \in BOOLEAN
    /\ idleLock \in {"free", "comm", "mission"}
    /\ idleLock = "comm" <=> comm.pc \in Locked
    /\ idleLock = "mission" <=> mission.pc = "leave hw"
    /\ hwIdle /\ ~restartFailed => idleState \/ comm.pc = "enter flag"

(* A correction of time delays the end of the idle state by a tick, and     *)
(* TimeChanged adds back what it took.                                     *)
Latest == Longest + troubles
TimesOK ==
    /\ troubles \in 0 .. MaxTroubles
    /\ turnOff \in Floor .. Latest /\ comm.off \in Floor .. Latest /\ mission.off \in Floor .. Latest
    /\ mission.pc = "changed" => troubles >= 1
    /\ mission.pc = "changed" /\ mission.shift = 1 => turnOff < Latest /\ comm.off < Latest

CommInv == TasksOK /\ FramesOK /\ LossesPaid /\ Repeats /\ IdleOK /\ TimesOK

(* What the assumption on the constants says of each of them.               *)
LEMMA CommConstants ==
    /\ RetryCount \in Nat \ {0} /\ ReceiverBufferSize \in Nat \ {0} /\ MaxFrames \in Nat
    /\ MaxTroubles \in Nat /\ Durations \subseteq Nat /\ Longest \in Nat
    /\ \A d \in Durations : d <= Longest
<1>1. \E longest \in Durations : \A d \in Durations : d <= longest
  BY CommAssumption
<1>2. Longest \in Durations /\ \A d \in Durations : d <= Longest
  BY <1>1, Zenon DEF Longest
<1> QED
  BY <1>2, CommAssumption

(* The local variables of the tasks.                                        *)
CommRecord == [pc : CommPcs, left : 0 .. ReceiverBufferSize, tries : 0 .. RetryCount,
               anyFrame : BOOLEAN, off : Int]
MissionRecord == [pc : MissionPcs, due : BOOLEAN, shift : -1 .. 1, off : Int]

(* The records with which a poll of the comm task and an iteration of the   *)
(* mission loop start (CommStart, MissionStart).                            *)
LEMMA StartsTyped ==
    /\ CommStart \in CommRecord /\ CommStart.pc = "count" /\ CommStart.off = Floor
    /\ MissionStart \in MissionRecord /\ MissionStart.pc = "determine" /\ MissionStart.off = Floor
    /\ Floor = -1
BY CommConstants DEF CommStart, MissionStart, CommRecord, MissionRecord, CommPcs, MissionPcs, Floor

(* The boot establishes the invariant.                                      *)
LEMMA CommInitOK == CommInit => CommInv
<1> SUFFICES ASSUME CommInit PROVE CommInv
  OBVIOUS
<1>0. /\ rx = <<>> /\ comm = CommStart /\ mission = MissionStart /\ idleLock = "free" /\ turnOff = Floor
      /\ arrived = 0 /\ troubles = 0 /\ readFailures = 0
      /\ readable = {} /\ handled = {} /\ repeated = {} /\ removeFailed = {} /\ flushed = {}
  BY DEF CommInit
<1>1. stuck = FALSE /\ hwIdle = FALSE /\ ping = FALSE /\ idleState = FALSE /\ restartFailed = FALSE
  BY DEF CommInit
<1>2. TasksOK
  <2>1. ping \in BOOLEAN
    BY <1>1, Zenon
  <2> QED
    BY <1>0, <2>1, StartsTyped DEF TasksOK, CommRecord, MissionRecord, Busy, Done, Entering, Locked
<1>3. FramesOK
  <2>1. stuck \in BOOLEAN
    BY <1>1, Zenon
  <2>2. 0 \in 0 .. MaxFrames /\ 0 <= ReceiverBufferSize
    BY CommConstants
  <2>3. rx \in Seq(Frames) /\ Len(rx) = 0 /\ 1 .. Len(rx) = {}
    BY <1>0
  <2> QED
    BY <1>0, <2>1, <2>2, <2>3 DEF FramesOK
<1>4. LossesPaid
  <2>1. Lost = {} /\ ~Unread
    BY <1>0 DEF Lost, Unread
  <2>2. Cardinality(Lost) = 0 /\ Spent = 0
    BY <2>1, FS_EmptySet DEF Spent
  <2> QED
    BY <1>0, <2>1, <2>2, CommConstants DEF LossesPaid
<1>5. Repeats
  BY <1>0 DEF Repeats
<1>6. IdleOK
  <2>1. hwIdle \in BOOLEAN /\ idleState \in BOOLEAN /\ restartFailed \in BOOLEAN /\ ~hwIdle
    BY <1>1, Zenon
  <2> QED
    BY <1>0, <2>1, StartsTyped DEF IdleOK, Locked
<1>7. TimesOK
  BY <1>0, CommConstants, StartsTyped DEF TimesOK, Latest
<1> QED
  BY <1>2, <1>3, <1>4, <1>5, <1>6, <1>7 DEF CommInv

(* What a step keeps that leaves the frames, the loop over them, the idle   *)
(* state or the times alone.                                                *)
LEMMA FramesKept ==
    ASSUME FramesOK, UNCHANGED <<rx, arrived, readable, handled>>, stuck' \in BOOLEAN
    PROVE  FramesOK'
BY DEF FramesOK

(* The frames that were lost are finitely many.                             *)
LEMMA LostCounted ==
    ASSUME FramesOK
    PROVE  IsFiniteSet(Lost) /\ Cardinality(Lost) \in Nat
<1>1. IsFiniteSet(1 .. arrived)
  BY FS_Interval DEF FramesOK
<1>2. Lost \subseteq 1 .. arrived
  BY DEF FramesOK, Lost
<1>3. IsFiniteSet(Lost)
  BY <1>1, <1>2, FS_Subset
<1> QED
  BY <1>3, FS_CardinalityType

(* The attempts it takes to lose one frame more.                            *)
LEMMA CostOfLosses ==
    ASSUME NEW n \in Nat, NEW m \in Nat
    PROVE  /\ RetryCount * n \in Nat
           /\ m <= n => RetryCount * m <= RetryCount * n
           /\ RetryCount * (n + 1) = RetryCount * n + RetryCount
<1>1. RetryCount \in Nat
  BY CommConstants
<1>2. RetryCount * n \in Nat /\ RetryCount * (n + 1) = RetryCount * n + RetryCount
  BY <1>1
<1>3. ASSUME m <= n PROVE RetryCount * m <= RetryCount * n
  <2>1. n - m \in Nat /\ RetryCount * (n - m) \in Nat
    BY <1>1, <1>3
  <2>2. RetryCount * n = RetryCount * m + RetryCount * (n - m)
    BY <1>1
  <2>3. RetryCount * m \in Nat
    BY <1>1
  <2> QED
    BY <2>1, <2>2, <2>3, <1>2
<1> QED
  BY <1>2, <1>3

(* Sums of the attempts spent on frames already lost and on the first one.  *)
LEMMA Sums ==
    \A lost, less, spent, spends, failures, failed \in Nat :
        /\ less <= lost /\ lost + spent <= failures /\ spends - spent <= failed - failures
              => less + spends <= failed
        /\ spends <= spent /\ failed = failures => spends - spent <= failed - failures
OBVIOUS

(* GetFrame pays for what it spends (comm.cpp:750): where no frame is lost  *)
(* and no attempt is spent that did not fail, the losses stay paid.         *)
LEMMA LossesFewer ==
    ASSUME FramesOK, LossesPaid, Lost' \subseteq Lost, readFailures' \in Nat, Spent \in Nat,
           Spent' \in Nat, Spent' - Spent <= readFailures' - readFailures,
           comm'.pc \in Entering => ~Unread'
    PROVE  LossesPaid'
<1>1. IsFiniteSet(Lost) /\ Cardinality(Lost) \in Nat
  BY LostCounted
<1>2. Cardinality(Lost') \in Nat /\ Cardinality(Lost') <= Cardinality(Lost)
  BY <1>1, FS_Subset, FS_CardinalityType
<1>3. /\ RetryCount * Cardinality(Lost) \in Nat /\ RetryCount * Cardinality(Lost') \in Nat
      /\ RetryCount * Cardinality(Lost') <= RetryCount * Cardinality(Lost)
  BY <1>1, <1>2, CostOfLosses
<1>4. readFailures \in Nat /\ RetryCount * Cardinality(Lost) + Spent <= readFailures
  BY DEF LossesPaid
<1>6. RetryCount * Cardinality(Lost') + Spent' <= readFailures'
  BY <1>3, <1>4, Sums, Zenon
<1>7. Cardinality(Lost)' = Cardinality(Lost')
  OBVIOUS
<1> QED
  BY <1>6, <1>7 DEF LossesPaid

(* A frame that goes unread has cost every one of RetryCount attempts, so   *)
(* the loss of it is paid (comm.cpp:750-795).                               *)
LEMMA LossesOneMore ==
    ASSUME FramesOK, LossesPaid, NEW id, Lost' \subseteq Lost \cup {id}, readFailures' = readFailures,
           Spent = RetryCount, Spent' = 0, comm'.pc \notin Entering
    PROVE  LossesPaid'
<1>0. RetryCount \in Nat
  BY CommConstants
<1>1. IsFiniteSet(Lost) /\ Cardinality(Lost) \in Nat
  BY LostCounted
<1>2. IsFiniteSet(Lost \cup {id}) /\ Cardinality(Lost \cup {id}) <= Cardinality(Lost) + 1
      /\ Cardinality(Lost \cup {id}) \in Nat
  BY <1>1, FS_AddElement, FS_CardinalityType
<1>3. Cardinality(Lost') \in Nat /\ Cardinality(Lost') <= Cardinality(Lost) + 1
  <2>1. IsFiniteSet(Lost') /\ Cardinality(Lost') <= Cardinality(Lost \cup {id})
    BY <1>2, FS_Subset
  <2>2. Cardinality(Lost') \in Nat
    BY <2>1, FS_CardinalityType
  <2> QED
    BY <1>1, <1>2, <2>1, <2>2
<1>4. /\ RetryCount * Cardinality(Lost') \in Nat
      /\ RetryCount * Cardinality(Lost') <= RetryCount * Cardinality(Lost) + RetryCount
  <2>1. RetryCount * Cardinality(Lost') <= RetryCount * (Cardinality(Lost) + 1)
        /\ RetryCount * Cardinality(Lost') \in Nat
    BY <1>1, <1>3, CostOfLosses
  <2>2. RetryCount * (Cardinality(Lost) + 1) = RetryCount * Cardinality(Lost) + RetryCount
    BY <1>1, CostOfLosses
  <2> QED
    BY <2>1, <2>2
<1>5. readFailures \in Nat /\ RetryCount * Cardinality(Lost) + RetryCount <= readFailures
  BY DEF LossesPaid
<1>6. RetryCount * Cardinality(Lost) \in Nat
  BY <1>1, CostOfLosses
<1>7. ASSUME NEW p \in Nat, NEW q \in Nat, q <= p + RetryCount, p + RetryCount <= readFailures
      PROVE  q + 0 <= readFailures
  BY <1>0, <1>5, <1>7
<1>8. RetryCount * Cardinality(Lost') + Spent' <= readFailures'
  <2>1. RetryCount * Cardinality(Lost') + 0 <= readFailures
    BY ONLY <1>4, <1>5, <1>6, <1>7, Zenon
  <2> QED
    BY <2>1
<1>9. Cardinality(Lost)' = Cardinality(Lost')
  OBVIOUS
<1> QED
  BY <1>5, <1>8, <1>9 DEF LossesPaid

(* The attempts spent on the first frame are a number.                      *)
LEMMA SpentTyped ==
    ASSUME comm.tries \in 0 .. RetryCount
    PROVE  Spent \in Nat
BY CommConstants DEF Spent

(* A step that leaves the receiver and the attempts alone loses no frame.   *)
LEMMA LossesKept ==
    ASSUME FramesOK, LossesPaid, UNCHANGED <<rx, readable, handled, flushed, readFailures>>,
           comm'.pc \in {"get", "remove"} => comm'.pc = comm.pc /\ comm'.tries = comm.tries,
           comm.tries \in 0 .. RetryCount, comm'.pc \in Entering => comm.pc \in Entering
    PROVE  LossesPaid'
<1>1. Lost' = Lost /\ Unread' = Unread
  BY DEF Lost, Unread
<1>2. Spent' \in Nat /\ Spent' <= Spent /\ Spent \in Nat
  BY <1>1, CommConstants DEF Spent
<1>3. readFailures \in Nat /\ readFailures' = readFailures
  BY DEF LossesPaid
<1>4. Spent' - Spent <= readFailures' - readFailures
  <2>1. readFailures' \in Nat
    BY <1>3, Zenon
  <2> QED
    BY <1>2, <1>3, <2>1, Sums, Zenon
<1>5. comm'.pc \in Entering => ~Unread'
  BY <1>1 DEF LossesPaid
<1> QED
  BY <1>1, <1>2, <1>3, <1>4, <1>5, LossesFewer

(* A step that neither handles nor removes a frame repeats none.            *)
LEMMA RepeatsKept ==
    ASSUME Repeats, UNCHANGED <<rx, handled, repeated, removeFailed, restartFailed>>,
           comm.pc \in Done => comm'.pc \in Done
    PROVE  Repeats'
BY DEF Repeats

(* A step that leaves the idle state and its lock alone keeps IdleOK.       *)
LEMMA IdleKept ==
    ASSUME IdleOK, UNCHANGED <<hwIdle, idleState, restartFailed, idleLock>>,
           comm'.pc \in Locked <=> comm.pc \in Locked,
           comm.pc = "enter flag" <=> comm'.pc = "enter flag",
           mission.pc = "leave hw" <=> mission'.pc = "leave hw"
    PROVE  IdleOK'
BY DEF IdleOK

(* A step that only starts to enter the idle state, or fails, keeps the     *)
(* times within the longest duration.                                       *)
LEMMA TimesKept ==
    ASSUME TimesOK, UNCHANGED turnOff, troubles' \in {troubles, troubles + 1}, troubles' <= MaxTroubles,
           comm'.off \in {comm.off, Floor} \cup Durations, mission'.off \in {mission.off, Floor},
           mission'.pc = "changed" => mission.pc = "changed" /\ mission'.shift = mission.shift
    PROVE  TimesOK'
<1>1. troubles' \in 0 .. MaxTroubles /\ troubles' >= troubles /\ Latest' >= Latest /\ Latest' \in Nat
      /\ Latest \in Nat
  <2>1. troubles \in Nat /\ MaxTroubles \in Nat /\ Longest \in Nat
    BY CommConstants DEF TimesOK
  <2>2. troubles' \in Nat /\ troubles' >= troubles
    BY <2>1
  <2>3. Latest' = Longest + troubles' /\ Latest = Longest + troubles
    BY DEF Latest
  <2>4. troubles' \in 0 .. MaxTroubles
    BY <2>1, <2>2
  <2>5. \A l, t, u \in Nat : l + t \in Nat /\ (u >= t => l + u >= l + t)
    OBVIOUS
  <2>6. Latest' \in Nat /\ Latest \in Nat /\ Latest' >= Latest
    BY ONLY <2>1, <2>2, <2>3, <2>5, Zenon
  <2> QED
    BY <2>2, <2>4, <2>6
<1>2. \A d \in Durations : d \in Floor .. Latest
  <2>1. \A d \in Durations : d \in Nat /\ d <= Longest
    BY CommConstants
  <2>2. troubles \in Nat /\ Latest = Longest + troubles /\ Longest \in Nat
    <3>1. troubles \in 0 .. MaxTroubles
      BY DEF TimesOK
    <3> QED
      BY <3>1, CommConstants DEF Latest
  <2> QED
    BY <2>1, <2>2 DEF Floor
<1>3. comm'.off \in Floor .. Latest' /\ mission'.off \in Floor .. Latest' /\ turnOff' \in Floor .. Latest'
  BY <1>1, <1>2, StartsTyped DEF TimesOK
<1>4. mission'.pc = "changed" => troubles >= 1 /\ troubles' >= 1
  BY <1>1 DEF TimesOK
<1>5. mission'.pc = "changed" /\ mission'.shift = 1 => turnOff' < Latest' /\ comm'.off < Latest'
  <2> SUFFICES ASSUME mission'.pc = "changed", mission'.shift = 1
               PROVE  turnOff < Latest' /\ comm'.off < Latest'
    OBVIOUS
  <2>1. turnOff < Latest /\ comm.off < Latest /\ turnOff \in Int /\ comm.off \in Int
    BY DEF TimesOK, Floor
  <2>2. Floor < Latest /\ \A d \in Durations : d < Latest /\ d \in Int
    <3>1. troubles \in Nat /\ troubles >= 1 /\ Latest = Longest + troubles /\ Longest \in Nat
      BY <1>4, CommConstants DEF TimesOK, Latest
    <3>2. \A d \in Durations : d \in Nat /\ d <= Longest
      BY CommConstants
    <3> QED
      BY <3>1, <3>2 DEF Floor
  <2>3. comm'.off < Latest /\ comm'.off \in Int
    <3>1. CASE comm'.off \in {comm.off, Floor}
      BY <2>1, <2>2, <3>1 DEF Floor
    <3>2. CASE comm'.off \in Durations
      BY <2>2, <3>2
    <3> QED
      BY <3>1, <3>2
  <2> QED
    BY <1>1, <2>1, <2>3
<1> QED
  BY <1>1, <1>3, <1>4, <1>5 DEF TimesOK

(* What has to be shown of a step for TasksOK.                              *)
LEMMA TasksKept ==
    ASSUME comm' \in CommRecord, mission' \in MissionRecord, ping' \in BOOLEAN,
           comm'.pc \in Busy => comm'.left >= 1 /\ comm'.left <= Len(rx'),
           comm'.pc = "get" => comm'.tries >= 1
    PROVE  TasksOK'
BY DEF TasksOK, CommRecord, MissionRecord

(* A task that goes on to another place keeps its local variables.         *)
LEMMA CommMoves ==
    ASSUME TasksOK, NEW there \in CommPcs, CommGoes(there)
    PROVE  /\ comm' \in CommRecord /\ comm'.pc = there /\ comm'.left = comm.left
           /\ comm'.tries = comm.tries /\ comm'.off = comm.off
<1>1. comm \in CommRecord /\ comm' = [comm EXCEPT !.pc = there]
  BY DEF TasksOK, CommRecord, CommGoes
<1> QED
  BY <1>1 DEF CommRecord

(* The mission loop that goes on to another place keeps its local variables.*)
LEMMA MissionMoves ==
    ASSUME TasksOK, NEW there \in MissionPcs, MissionGoes(there)
    PROVE  /\ mission' \in MissionRecord /\ mission'.pc = there /\ mission'.shift = mission.shift
           /\ mission'.off = mission.off
<1>1. mission \in MissionRecord /\ mission' = [mission EXCEPT !.pc = there]
  BY DEF TasksOK, MissionRecord, MissionGoes
<1> QED
  BY <1>1 DEF MissionRecord

(* A step that leaves the frames alone and starts no attempt keeps what the *)
(* invariant says of the frames.                                            *)
LEMMA FramesAlone ==
    ASSUME CommInv, UNCHANGED <<rx, arrived, history>>, stuck' \in BOOLEAN,
           comm'.pc \in {"get", "remove"} => comm'.pc = comm.pc /\ comm'.tries = comm.tries,
           comm'.pc \in Entering => comm.pc \in Entering,
           comm.pc \in Done => comm'.pc \in Done
    PROVE  FramesOK' /\ LossesPaid' /\ Repeats'
<1>1. UNCHANGED <<rx, arrived, readable, handled, repeated, removeFailed, flushed, readFailures, restartFailed>>
  BY DEF history
<1>2. TasksOK /\ FramesOK /\ LossesPaid /\ Repeats
  BY DEF CommInv
<1>3. comm.tries \in 0 .. RetryCount
  BY <1>2 DEF TasksOK
<1>4. FramesOK'
  BY <1>1, <1>2, FramesKept
<1>5. LossesPaid'
  BY <1>1, <1>2, <1>3, LossesKept
<1>6. Repeats'
  BY <1>1, <1>2, RepeatsKept
<1> QED
  BY <1>4, <1>5, <1>6

(* Entering the idle state, the frame is already handled: none is lost      *)
(* (comm.cpp:784).                                                          *)
LEMMA EndOfHandling ==
    ASSUME CommInv, UNCHANGED <<rx, stuck, arrived>>,
           UNCHANGED <<readable, handled, repeated, removeFailed, flushed, readFailures, restartFailed>>,
           comm.pc \in Entering, comm'.pc \in Done
    PROVE  FramesOK' /\ LossesPaid' /\ Repeats'
<1>1. TasksOK /\ FramesOK /\ LossesPaid /\ Repeats
  BY DEF CommInv
<1>2. stuck' \in BOOLEAN
  BY <1>1 DEF FramesOK
<1>3. FramesOK'
  BY <1>1, <1>2, FramesKept
<1>4. LossesPaid'
  <2>1. Lost' = Lost /\ Unread' = Unread /\ ~Unread
    BY <1>1 DEF Lost, Unread, LossesPaid
  <2>2. Spent' = 0 /\ Spent = 0 /\ readFailures' = readFailures /\ readFailures \in Nat
    BY <1>1, <2>1 DEF Spent, LossesPaid
  <2>3. Spent \in Nat /\ Spent' \in Nat /\ readFailures' \in Nat /\ Spent' - Spent <= readFailures' - readFailures
    BY <2>2
  <2> QED
    BY <1>1, <2>1, <2>3, LossesFewer
<1>5. Repeats'
  BY <1>1, RepeatsKept DEF Done
<1> QED
  BY <1>3, <1>4, <1>5

(* At most one failure a step, and Latest grows with them.                  *)
LEMMA TroublesCounted ==
    ASSUME TimesOK, troubles' = troubles \/ (troubles < MaxTroubles /\ troubles' = troubles + 1)
    PROVE  /\ troubles' \in {troubles, troubles + 1} /\ troubles' <= MaxTroubles
           /\ troubles' \in 0 .. MaxTroubles /\ Latest \in Nat /\ Latest' = Latest + (troubles' - troubles)
           /\ Latest <= Latest'
<1>1. troubles \in Nat /\ troubles <= MaxTroubles /\ MaxTroubles \in Nat /\ Longest \in Nat
  <2>1. troubles \in 0 .. MaxTroubles
    BY DEF TimesOK
  <2> QED
    BY <2>1, CommConstants
<1>2. Latest = Longest + troubles /\ Latest' = Longest + troubles'
  BY DEF Latest
<1>3. CASE troubles' = troubles
  BY <1>1, <1>2, <1>3
<1>4. CASE troubles < MaxTroubles /\ troubles' = troubles + 1
  <2>1. troubles' \in 0 .. MaxTroubles /\ troubles' <= MaxTroubles /\ troubles' - troubles = 1
    BY <1>1, <1>4
  <2>2. \A l, t \in Nat : l + t \in Nat /\ l + (t + 1) = (l + t) + 1 /\ l + t <= l + (t + 1)
    OBVIOUS
  <2>3. Latest \in Nat /\ Latest' = Latest + 1 /\ Latest <= Latest'
    BY <1>1, <1>2, <1>4, <2>2, Zenon
  <2> QED
    BY <1>4, <2>1, <2>3
<1> QED
  BY <1>3, <1>4

(* The steps of the comm task.                                              *)
LEMMA GetFrameCountKeeps == CommInv /\ GetFrameCount => CommInv'
<1> SUFFICES ASSUME CommInv, GetFrameCount PROVE CommInv'
  OBVIOUS
<1>0. TasksOK /\ FramesOK /\ LossesPaid /\ Repeats /\ IdleOK /\ TimesOK /\ comm \in CommRecord
  BY DEF CommInv, TasksOK, CommRecord
<1>1. /\ comm.pc = "count" /\ UNCHANGED <<rx, stuck, hwIdle, ping, mission, idleLock, idleState, turnOff, arrived>>
      /\ UNCHANGED <<readable, handled, repeated, removeFailed, flushed, readFailures, restartFailed>>
      /\ troubles' \in {troubles, troubles + 1} /\ troubles' <= MaxTroubles
  BY <1>0, CommConstants DEF GetFrameCount, hardware, idleVars, history, BusOk, BusFault, Trouble, TimesOK
<1>2. /\ comm' \in CommRecord /\ comm'.off = comm.off
      /\ \/ comm'.pc = "kick"
         \/ comm'.pc = "get" /\ rx # <<>> /\ comm'.left = Len(rx) /\ comm'.tries = RetryCount
  <2>1. Len(rx) \in 0 .. ReceiverBufferSize /\ RetryCount \in 0 .. RetryCount /\ (rx # <<>>) \in BOOLEAN
        /\ 0 \in 0 .. ReceiverBufferSize
    BY <1>0, CommConstants DEF FramesOK
  <2>2. CASE comm' = [comm EXCEPT !.left = Len(rx), !.anyFrame = rx # <<>>, !.tries = RetryCount,
                                  !.pc = IF rx = <<>> THEN "kick" ELSE "get"]
    <3>1. CASE rx = <<>>
      BY <1>0, <2>1, <2>2, <3>1 DEF CommRecord, CommPcs
    <3>2. CASE rx # <<>>
      BY <1>0, <2>1, <2>2, <3>2 DEF CommRecord, CommPcs
    <3> QED
      BY <3>1, <3>2
  <2>3. CASE comm' = [comm EXCEPT !.left = 0, !.anyFrame = FALSE, !.pc = "kick"]
    BY <1>0, <2>1, <2>3 DEF CommRecord, CommPcs
  <2> QED
    BY <2>2, <2>3 DEF GetFrameCount
<1>3. TasksOK'
  <2>1. Len(rx) >= 1 \/ rx = <<>>
    BY <1>0 DEF FramesOK
  <2>2. mission' \in MissionRecord /\ ping' \in BOOLEAN
    BY <1>0, <1>1 DEF TasksOK, MissionRecord
  <2>3. comm'.pc \in Busy => comm'.left >= 1 /\ comm'.left <= Len(rx')
    <3>1. "kick" \notin Busy /\ Len(rx) \in Int /\ Len(rx') = Len(rx)
      BY <1>0, <1>1 DEF Busy, Done, Entering, Locked, FramesOK
    <3>2. rx # <<>> => Len(rx) >= 1 /\ Len(rx) <= Len(rx)
      BY <2>1, <3>1
    <3> QED
      BY <1>2, <3>1, <3>2, Zenon
  <2>4. comm'.pc = "get" => comm'.tries >= 1
    BY <1>2, CommConstants
  <2> QED
    BY <1>2, <2>2, <2>3, <2>4, TasksKept
<1>4. FramesOK'
  BY <1>0, <1>1, FramesKept DEF FramesOK
<1>5. LossesPaid'
  <2>1. Lost' = Lost /\ Spent \in Nat
    BY <1>0, <1>1, SpentTyped DEF Lost, TasksOK
  <2>2. Spent' = 0 /\ Spent = 0
    BY <1>1, <1>2, CommConstants DEF Spent
  <2>3. comm'.pc \notin Entering /\ readFailures' = readFailures /\ readFailures \in Nat
    BY <1>0, <1>1, <1>2 DEF Entering, Locked, LossesPaid
  <2>4. Spent' \in Nat /\ readFailures' \in Nat /\ Spent' - Spent <= readFailures' - readFailures
    BY <2>1, <2>2, <2>3
  <2> QED
    BY <1>0, <2>1, <2>3, <2>4, LossesFewer
<1>6. Repeats'
  BY <1>0, <1>1, RepeatsKept DEF Done, Entering, Locked
<1>7. IdleOK'
  BY <1>0, <1>1, <1>2, IdleKept DEF Locked
<1>8. TimesOK'
  BY <1>0, <1>1, <1>2, TimesKept
<1> QED
  BY <1>3, <1>4, <1>5, <1>6, <1>7, <1>8 DEF CommInv

(* GetFrame: an attempt that fails is counted in readFailures.              *)
LEMMA GetFrameKeeps == CommInv /\ GetFrame => CommInv'
<1> SUFFICES ASSUME CommInv, GetFrame PROVE CommInv'
  OBVIOUS
<1>0. TasksOK /\ FramesOK /\ LossesPaid /\ Repeats /\ IdleOK /\ TimesOK /\ comm \in CommRecord
  BY DEF CommInv, TasksOK, CommRecord
<1>1. /\ comm.pc = "get" /\ UNCHANGED <<rx, stuck, hwIdle, ping, mission, idleLock, idleState, turnOff, arrived>>
      /\ UNCHANGED <<readable, handled, repeated, removeFailed, flushed, restartFailed>>
      /\ troubles' \in {troubles, troubles + 1} /\ troubles' <= MaxTroubles
  BY <1>0, CommConstants DEF GetFrame, hardware, idleVars, history, BusOk, BusFault, Trouble, TimesOK
<1>2. \/ CommGoes("handle") /\ readFailures' = readFailures
      \/ /\ comm' = [comm EXCEPT !.tries = @ - 1, !.pc = IF comm.tries > 1 THEN "get" ELSE "remove"]
         /\ readFailures' = readFailures + 1 \/ (readFailures' = readFailures /\ ~Unread)
  BY DEF GetFrame, Unread
<1>3. comm.tries \in 1 .. RetryCount /\ comm.left >= 1 /\ comm.left <= Len(rx)
  BY <1>0, <1>1 DEF TasksOK, Busy
<1>4. /\ comm' \in CommRecord /\ comm'.off = comm.off /\ comm'.left = comm.left
      /\ \/ comm'.pc = "handle"
         \/ comm'.pc = "remove" /\ comm.tries = 1
         \/ comm'.pc = "get" /\ comm.tries > 1 /\ comm'.tries = comm.tries - 1
  <2>1. CASE CommGoes("handle")
    BY <1>0, <2>1, CommMoves DEF CommPcs
  <2>2. CASE comm' = [comm EXCEPT !.tries = @ - 1, !.pc = IF comm.tries > 1 THEN "get" ELSE "remove"]
    <3>1. comm.tries - 1 \in 0 .. RetryCount
      BY <1>3, CommConstants
    <3>2. CASE comm.tries > 1
      BY <1>0, <2>2, <3>1, <3>2 DEF CommRecord, CommPcs
    <3>3. CASE ~(comm.tries > 1)
      <4>1. comm.tries = 1
        BY <1>3, <3>3, CommConstants
      <4> QED
        BY <1>0, <2>2, <3>1, <3>3, <4>1 DEF CommRecord, CommPcs
    <3> QED
      BY <3>2, <3>3
  <2> QED
    BY <1>2, <2>1, <2>2
<1>5. TasksOK'
  <2>1. mission' \in MissionRecord /\ ping' \in BOOLEAN
    BY <1>0, <1>1 DEF TasksOK, MissionRecord
  <2>2. comm'.left >= 1 /\ comm'.left <= Len(rx')
    BY <1>1, <1>3, <1>4
  <2>3. comm'.pc = "get" => comm'.tries >= 1
    BY <1>3, <1>4, CommConstants
  <2> QED
    BY <1>4, <2>1, <2>2, <2>3, TasksKept
<1>6. FramesOK'
  BY <1>0, <1>1, FramesKept DEF FramesOK
<1>7. LossesPaid'
  <2>1. Lost' = Lost /\ Unread' = Unread /\ Spent \in Nat
    BY <1>0, <1>1, SpentTyped DEF Lost, Unread, TasksOK
  <2>2. comm'.pc \notin Entering /\ readFailures \in Nat /\ readFailures' \in {readFailures, readFailures + 1}
    BY <1>0, <1>2, <1>4 DEF Entering, Locked, LossesPaid
  <2>3. CASE comm'.pc = "handle" \/ ~Unread
    <3>1. Spent' = 0
      BY <2>1, <2>3 DEF Spent
    <3>2. readFailures' \in Nat /\ Spent' \in Nat /\ Spent' <= Spent /\ readFailures <= readFailures'
      BY <2>1, <2>2, <3>1
    <3>3. \A a, b, c, d \in Nat : b <= a /\ c <= d => b - a <= d - c
      OBVIOUS
    <3>4. Spent' - Spent <= readFailures' - readFailures
      BY <2>1, <2>2, <3>2, <3>3, Zenon
    <3> QED
      BY <1>0, <2>1, <2>2, <3>2, <3>4, LossesFewer
  <2>4. CASE comm'.pc # "handle" /\ Unread
    <3>1. readFailures' = readFailures + 1
      <4>1. CASE CommGoes("handle")
        BY <1>0, <2>4, <4>1, CommMoves DEF CommPcs
      <4> QED
        BY <1>2, <2>4, <4>1
    <3>2. Spent = RetryCount - comm.tries
      BY <1>1, <2>4 DEF Spent
    <3>3. Spent' = RetryCount - comm.tries + 1
      <4>1. CASE comm'.pc = "remove"
        <5>1. comm.tries = 1 /\ Spent' = RetryCount
          BY <1>4, <2>1, <2>4, <4>1 DEF Spent
        <5> QED
          BY <5>1, CommConstants
      <4>2. CASE comm'.pc = "get"
        <5>1. comm'.tries = comm.tries - 1 /\ Spent' = RetryCount - comm'.tries
          BY <1>4, <2>1, <2>4, <4>2 DEF Spent
        <5> QED
          BY <1>3, <5>1, CommConstants
      <4> QED
        BY <1>4, <2>4, <4>1, <4>2
    <3>4. \A a, c \in Nat : a + 1 \in Nat /\ (a + 1) - a <= (c + 1) - c
      OBVIOUS
    <3>5. Spent' = Spent + 1
      BY <3>2, <3>3
    <3>6. Spent' \in Nat /\ readFailures' \in Nat /\ Spent' - Spent <= readFailures' - readFailures
      BY <2>1, <2>2, <3>1, <3>4, <3>5, Zenon
    <3> QED
      BY <1>0, <2>1, <2>2, <3>6, LossesFewer
  <2> QED
    BY <2>3, <2>4
<1>8. Repeats'
  BY <1>0, <1>1, RepeatsKept DEF Done, Entering, Locked
<1>9. IdleOK'
  BY <1>0, <1>1, <1>4, IdleKept DEF Locked
<1>10. TimesOK'
  BY <1>0, <1>1, <1>4, TimesKept
<1> QED
  BY <1>5, <1>6, <1>7, <1>8, <1>9, <1>10 DEF CommInv

(* HandleFrame: the first frame counts as handled and is handled again only *)
(* if it could not be removed.                                              *)
LEMMA HandleFrameKeeps == CommInv /\ HandleFrame => CommInv'
<1> SUFFICES ASSUME CommInv, HandleFrame PROVE CommInv'
  OBVIOUS
<1>0. TasksOK /\ FramesOK /\ LossesPaid /\ Repeats /\ IdleOK /\ TimesOK /\ comm \in CommRecord
  BY DEF CommInv, TasksOK, CommRecord
<1>1. /\ comm.pc = "handle" /\ rx # <<>>
      /\ UNCHANGED <<rx, stuck, ping, mission, idleLock, idleState, turnOff, arrived>>
      /\ UNCHANGED <<readable, removeFailed, flushed, readFailures, restartFailed>>
      /\ troubles' \in {troubles, troubles + 1} /\ troubles' <= MaxTroubles
      /\ handled' = handled \cup {Head(rx).id}
      /\ repeated' = IF Head(rx).id \in handled THEN repeated \cup {Head(rx).id} ELSE repeated
  <2>1. /\ comm.pc = "handle" /\ rx # <<>>
        /\ UNCHANGED <<rx, stuck, ping, mission, idleLock, idleState, turnOff, arrived>>
        /\ UNCHANGED <<readable, removeFailed, flushed, readFailures, restartFailed>>
        /\ handled' = handled \cup {Head(rx).id}
        /\ repeated' = IF Head(rx).id \in handled THEN repeated \cup {Head(rx).id} ELSE repeated
    BY Zenon DEF HandleFrame, idleVars
  <2>2. troubles' = troubles \/ (troubles < MaxTroubles /\ troubles' = troubles + 1)
    BY DEF HandleFrame, BusOk, BusFault, Trouble
  <2>3. troubles \in 0 .. MaxTroubles
    BY <1>0 DEF TimesOK
  <2>4. troubles' \in {troubles, troubles + 1} /\ troubles' <= MaxTroubles
    BY <2>2, <2>3, CommConstants
  <2> QED
    BY <2>1, <2>4
<1>2. /\ hwIdle' \in BOOLEAN
      /\ hwIdle' => hwIdle
      /\ \/ CommGoes("remove") \/ \E d \in Durations : comm' = [comm EXCEPT !.pc = "enter", !.off = d]
  <2>1. hwIdle \in BOOLEAN
    BY <1>0 DEF IdleOK
  <2>2. hwIdle' = hwIdle \/ hwIdle' = FALSE
    BY Zenon DEF HandleFrame
  <2>3. hwIdle' \in BOOLEAN /\ (hwIdle' => hwIdle)
    <3>1. CASE hwIdle' = hwIdle
      BY <2>1, <3>1, Zenon
    <3>2. CASE hwIdle' = FALSE
      BY <3>2, Zenon
    <3> QED
      BY <2>2, <3>1, <3>2, Zenon
  <2>4. CommGoes("remove") \/ \E d \in Durations : comm' = [comm EXCEPT !.pc = "enter", !.off = d]
    BY Zenon DEF HandleFrame
  <2> QED
    BY <2>3, <2>4
<1>3. /\ comm' \in CommRecord /\ comm'.left = comm.left /\ comm'.pc \in {"remove", "enter"}
      /\ comm'.off \in {comm.off, Floor} \cup Durations
  <2>1. CASE CommGoes("remove")
    BY <1>0, <2>1, CommMoves DEF CommPcs
  <2>2. ASSUME NEW d \in Durations, comm' = [comm EXCEPT !.pc = "enter", !.off = d]
        PROVE  comm' \in CommRecord /\ comm'.left = comm.left /\ comm'.pc = "enter" /\ comm'.off = d
    <3>1. d \in Int /\ "enter" \in CommPcs
      BY CommConstants DEF CommPcs
    <3> QED
      BY <1>0, <2>2, <3>1 DEF CommRecord
  <2> QED
    BY <1>2, <2>1, <2>2
<1>4. /\ rx \in Seq(Frames) /\ Len(rx) >= 1 /\ 1 \in 1 .. Len(rx) /\ Head(rx) = rx[1]
      /\ rx[1] \in Frames /\ arrived \in Nat
  BY <1>0, <1>1 DEF FramesOK
<1>5. rx[1].id \in 1 .. arrived
  BY <1>0, <1>4, CommConstants DEF Frames, FramesOK
<1>6. TasksOK'
  <2>1. mission' \in MissionRecord /\ ping' \in BOOLEAN
    BY <1>0, <1>1 DEF TasksOK, MissionRecord
  <2>2. comm'.left >= 1 /\ comm'.left <= Len(rx')
    BY <1>0, <1>1, <1>3 DEF TasksOK, Busy
  <2> QED
    BY <1>3, <2>1, <2>2, TasksKept
<1>7. FramesOK'
  BY <1>0, <1>1, <1>4, <1>5 DEF FramesOK
<1>8. LossesPaid'
  <2>1. Lost' \subseteq Lost /\ ~Unread'
    BY <1>1, <1>4 DEF Lost, Unread
  <2>2. Spent' = 0 /\ Spent = 0
    BY <1>1, <2>1 DEF Spent
  <2>3. readFailures' = readFailures /\ readFailures \in Nat
    BY <1>0, <1>1 DEF LossesPaid
  <2>4. Spent \in Nat /\ Spent' \in Nat /\ readFailures' \in Nat /\ Spent' - Spent <= readFailures' - readFailures
    BY <2>2, <2>3
  <2> QED
    BY <1>0, <2>1, <2>4, LossesFewer
<1>9. Repeats'
  <2> SUFFICES ASSUME ~restartFailed
               PROVE  /\ repeated' \subseteq removeFailed
                      /\ \A i \in 1 .. Len(rx) :
                            rx[i].id \in handled' => rx[i].id \in removeFailed \/ (i = 1 /\ comm'.pc \in Done)
    BY <1>1 DEF Repeats
  <2>1. rx[1].id \in handled => rx[1].id \in removeFailed
    BY <1>0, <1>1, <1>4 DEF Repeats, Done, Entering, Locked
  <2>2. repeated \subseteq removeFailed
    BY <1>0 DEF Repeats
  <2>3. \A i \in 1 .. Len(rx) : rx[i].id \in handled => rx[i].id \in removeFailed
    BY <1>0, <1>1 DEF Repeats, Done, Entering, Locked
  <2>4. \A i \in 1 .. Len(rx) : i # 1 => rx[i].id # rx[1].id
    <3> SUFFICES ASSUME NEW i \in 1 .. Len(rx), i # 1 PROVE rx[i].id # rx[1].id
      OBVIOUS
    <3>1. rx[1].id < rx[i].id
      BY <1>0, <1>4 DEF FramesOK
    <3>2. rx[i].id \in Int
      <4>1. rx[i] \in Frames
        BY <1>4
      <4> QED
        BY <4>1, CommConstants DEF Frames
    <3> QED
      BY <1>5, <3>1, <3>2
  <2>5. comm'.pc \in Done
    BY <1>3 DEF Done, Entering
  <2> QED
    BY <1>1, <1>4, <2>1, <2>2, <2>3, <2>4, <2>5
<1>10. IdleOK'
  <2>1. hwIdle /\ ~restartFailed => idleState
    BY <1>0, <1>1 DEF IdleOK
  <2>2. comm'.pc \notin Locked /\ comm.pc \notin Locked
    BY <1>1, <1>3 DEF Locked
  <2>3. hwIdle' /\ ~restartFailed' => idleState' \/ comm'.pc = "enter flag"
    BY <1>1, <1>2, <2>1, Zenon
  <2>4. /\ hwIdle' \in BOOLEAN /\ idleState' \in BOOLEAN /\ restartFailed' \in BOOLEAN
        /\ idleLock' \in {"free", "comm", "mission"}
    BY <1>0, <1>1, <1>2, Zenon DEF IdleOK
  <2>5. idleLock' = "comm" <=> comm'.pc \in Locked
    BY <1>0, <1>1, <2>2 DEF IdleOK
  <2>6. idleLock' = "mission" <=> mission'.pc = "leave hw"
    BY <1>0, <1>1 DEF IdleOK
  <2> QED
    BY <2>3, <2>4, <2>5, <2>6, Zenon DEF IdleOK
<1>11. TimesOK'
  BY <1>0, <1>1, <1>3, TimesKept
<1> QED
  BY <1>6, <1>7, <1>8, <1>9, <1>10, <1>11 DEF CommInv

(* EnterTransmitterStateWhenIdle takes the lock (mission/comm/comm.cpp:26). *)
LEMMA EnterIdleLockKeeps == CommInv /\ EnterIdleLock => CommInv'
<1> SUFFICES ASSUME CommInv, EnterIdleLock PROVE CommInv'
  OBVIOUS
<1>0. TasksOK /\ FramesOK /\ LossesPaid /\ Repeats /\ IdleOK /\ TimesOK /\ comm \in CommRecord
  BY DEF CommInv, TasksOK, CommRecord
<1>1. /\ comm.pc = "enter" /\ idleLock = "free" /\ idleLock' = "comm" /\ CommGoes("enter hw")
      /\ UNCHANGED <<rx, stuck, hwIdle, ping, mission, idleState, turnOff, arrived, troubles>>
      /\ UNCHANGED history /\ UNCHANGED restartFailed
  BY DEF EnterIdleLock, hardware, counters, history
<1>2. /\ comm' \in CommRecord /\ comm'.pc = "enter hw" /\ comm'.left = comm.left /\ comm'.off = comm.off
  BY <1>0, <1>1, CommMoves DEF CommPcs
<1>3. TasksOK'
  <2>1. mission' \in MissionRecord /\ ping' \in BOOLEAN
    BY <1>0, <1>1 DEF TasksOK, MissionRecord
  <2>2. comm'.left >= 1 /\ comm'.left <= Len(rx')
    BY <1>0, <1>1, <1>2 DEF TasksOK, Busy, Done, Entering
  <2> QED
    BY <1>2, <2>1, <2>2, TasksKept
<1>4. FramesOK' /\ LossesPaid' /\ Repeats'
  <2>1. comm'.pc \notin {"get", "remove"} /\ comm.pc \in Entering /\ comm'.pc \in Done
    BY <1>1, <1>2 DEF Entering, Done, Locked
  <2>2. stuck' \in BOOLEAN
    BY <1>0, <1>1 DEF FramesOK
  <2> QED
    BY <1>1, <2>1, <2>2, FramesAlone
<1>5. IdleOK'
  <2>1. comm.pc # "enter flag" /\ comm'.pc \in Locked /\ mission.pc # "leave hw"
    BY <1>0, <1>1, <1>2 DEF Locked, IdleOK
  <2> QED
    BY <1>0, <1>1, <2>1 DEF IdleOK
<1>6. TimesOK'
  <2>1. troubles' <= MaxTroubles
    BY <1>0, <1>1, TroublesCounted
  <2> QED
    BY <1>0, <1>1, <1>2, <2>1, TimesKept
<1> QED
  BY <1>3, <1>4, <1>5, <1>6 DEF CommInv

(* The transmitter is switched, or the lock is given back.                  *)
LEMMA EnterIdleHardwareKeeps == CommInv /\ EnterIdleHardware => CommInv'
<1> SUFFICES ASSUME CommInv, EnterIdleHardware PROVE CommInv'
  OBVIOUS
<1>0. TasksOK /\ FramesOK /\ LossesPaid /\ Repeats /\ IdleOK /\ TimesOK /\ comm \in CommRecord
  BY DEF CommInv, TasksOK, CommRecord
<1>1. /\ comm.pc = "enter hw"
      /\ UNCHANGED <<rx, stuck, ping, mission, idleState, turnOff, arrived>>
      /\ UNCHANGED <<readable, handled, repeated, removeFailed, flushed, readFailures, restartFailed>>
      /\ \/ troubles' = troubles /\ hwIdle' = TRUE /\ CommGoes("enter flag") /\ idleLock' = idleLock
         \/ /\ troubles < MaxTroubles /\ troubles' = troubles + 1
            /\ CommGoes("remove") /\ idleLock' = "free" /\ hwIdle' = hwIdle
  BY DEF EnterIdleHardware, BusOk, BusFault, Trouble, history
<1>2. /\ comm' \in CommRecord /\ comm'.left = comm.left /\ comm'.off = comm.off
      /\ \/ comm'.pc = "enter flag" /\ hwIdle' = TRUE /\ idleLock' = idleLock
         \/ comm'.pc = "remove" /\ idleLock' = "free" /\ hwIdle' = hwIdle
  BY <1>0, <1>1, CommMoves DEF CommPcs
<1>3. troubles' \in {troubles, troubles + 1} /\ troubles' <= MaxTroubles
  BY <1>0, <1>1, TroublesCounted
<1>4. TasksOK'
  <2>1. mission' \in MissionRecord /\ ping' \in BOOLEAN
    BY <1>0, <1>1 DEF TasksOK, MissionRecord
  <2>2. comm'.left >= 1 /\ comm'.left <= Len(rx')
    BY <1>0, <1>1, <1>2 DEF TasksOK, Busy, Done, Entering, Locked
  <2> QED
    BY <1>2, <2>1, <2>2, TasksKept
<1>5. FramesOK' /\ LossesPaid' /\ Repeats'
  BY <1>0, <1>1, <1>2, EndOfHandling DEF Locked, Done, Entering
<1>6. IdleOK'
  <2>1. mission.pc # "leave hw" /\ idleLock = "comm" /\ (hwIdle /\ ~restartFailed => idleState)
    BY <1>0, <1>1 DEF Locked, IdleOK
  <2>2. hwIdle' /\ ~restartFailed' => idleState' \/ comm'.pc = "enter flag"
    BY <1>1, <1>2, <2>1, Zenon
  <2>3. /\ hwIdle' \in BOOLEAN /\ idleState' \in BOOLEAN /\ restartFailed' \in BOOLEAN
        /\ idleLock' \in {"free", "comm", "mission"}
    <3>1. hwIdle' \in BOOLEAN
      BY <1>0, <1>2, Zenon DEF IdleOK
    <3> QED
      BY <1>0, <1>1, <1>2, <2>1, <3>1, Zenon DEF IdleOK
  <2>4. idleLock' = "comm" <=> comm'.pc \in Locked
    BY <1>2, <2>1 DEF Locked
  <2>5. idleLock' = "mission" <=> mission'.pc = "leave hw"
    BY <1>1, <1>2, <2>1
  <2> QED
    BY <2>2, <2>3, <2>4, <2>5, Zenon DEF IdleOK
<1>7. TimesOK'
  BY <1>0, <1>1, <1>2, <1>3, TimesKept
<1> QED
  BY <1>4, <1>5, <1>6, <1>7 DEF CommInv

(* The flag is set while the lock is held.                                  *)
LEMMA EnterIdleFlagKeeps == CommInv /\ EnterIdleFlag => CommInv'
<1> SUFFICES ASSUME CommInv, EnterIdleFlag PROVE CommInv'
  OBVIOUS
<1>0. TasksOK /\ FramesOK /\ LossesPaid /\ Repeats /\ IdleOK /\ TimesOK /\ comm \in CommRecord
  BY DEF CommInv, TasksOK, CommRecord
<1>1. /\ comm.pc = "enter flag" /\ idleState' = TRUE /\ CommGoes("enter time")
      /\ UNCHANGED <<rx, stuck, hwIdle, ping, mission, idleLock, turnOff, arrived, troubles>>
      /\ UNCHANGED <<readable, handled, repeated, removeFailed, flushed, readFailures, restartFailed>>
  BY DEF EnterIdleFlag, hardware, counters, history
<1>2. /\ comm' \in CommRecord /\ comm'.pc = "enter time" /\ comm'.left = comm.left /\ comm'.off = comm.off
  BY <1>0, <1>1, CommMoves DEF CommPcs
<1>3. TasksOK'
  <2>1. mission' \in MissionRecord /\ ping' \in BOOLEAN
    BY <1>0, <1>1 DEF TasksOK, MissionRecord
  <2>2. comm'.left >= 1 /\ comm'.left <= Len(rx')
    BY <1>0, <1>1, <1>2 DEF TasksOK, Busy, Done, Entering, Locked
  <2> QED
    BY <1>2, <2>1, <2>2, TasksKept
<1>4. FramesOK' /\ LossesPaid' /\ Repeats'
  BY <1>0, <1>1, <1>2, EndOfHandling DEF Locked, Done, Entering
<1>5. IdleOK'
  <2>1. idleState' \in BOOLEAN /\ idleState'
    BY <1>1, Zenon
  <2>2. comm.pc \in Locked /\ comm'.pc \in Locked
    BY <1>1, <1>2 DEF Locked
  <2> QED
    BY <1>0, <1>1, <2>1, <2>2 DEF IdleOK
<1>6. TimesOK'
  <2>1. troubles' <= MaxTroubles
    BY <1>0, <1>1, TroublesCounted
  <2> QED
    BY <1>0, <1>1, <1>2, <2>1, TimesKept
<1> QED
  BY <1>3, <1>4, <1>5, <1>6 DEF CommInv

(* The time is set and the lock is given back.                              *)
LEMMA EnterIdleTimeKeeps == CommInv /\ EnterIdleTime => CommInv'
<1> SUFFICES ASSUME CommInv, EnterIdleTime PROVE CommInv'
  OBVIOUS
<1>0. TasksOK /\ FramesOK /\ LossesPaid /\ Repeats /\ IdleOK /\ TimesOK /\ comm \in CommRecord
  BY DEF CommInv, TasksOK, CommRecord
<1>1. /\ comm.pc = "enter time" /\ turnOff' = comm.off /\ idleLock' = "free"
      /\ comm' = [comm EXCEPT !.pc = "remove", !.off = Floor]
      /\ UNCHANGED <<rx, stuck, hwIdle, ping, mission, idleState, arrived, troubles>>
      /\ UNCHANGED <<readable, handled, repeated, removeFailed, flushed, readFailures, restartFailed>>
  BY DEF EnterIdleTime, hardware, counters, history
<1>2. /\ comm' \in CommRecord /\ comm'.pc = "remove" /\ comm'.left = comm.left /\ comm'.off = Floor
  <2>1. Floor \in Int /\ "remove" \in CommPcs
    BY DEF CommPcs, Floor
  <2> QED
    BY <1>0, <1>1, <2>1 DEF CommRecord
<1>3. TasksOK'
  <2>1. mission' \in MissionRecord /\ ping' \in BOOLEAN
    BY <1>0, <1>1 DEF TasksOK, MissionRecord
  <2>2. comm'.left >= 1 /\ comm'.left <= Len(rx')
    BY <1>0, <1>1, <1>2 DEF TasksOK, Busy, Done, Entering, Locked
  <2> QED
    BY <1>2, <2>1, <2>2, TasksKept
<1>4. FramesOK' /\ LossesPaid' /\ Repeats'
  BY <1>0, <1>1, <1>2, EndOfHandling DEF Locked, Done, Entering
<1>5. IdleOK'
  <2>1. comm'.pc \notin Locked /\ mission.pc # "leave hw" /\ comm.pc # "enter flag"
    BY <1>0, <1>1, <1>2 DEF Locked, IdleOK
  <2> QED
    BY <1>0, <1>1, <2>1 DEF IdleOK
<1>6. TimesOK'
  <2>0. Latest' = Latest /\ Latest \in Nat
    BY <1>0, <1>1, TroublesCounted DEF Latest
  <2>1. /\ turnOff' \in Floor .. Latest' /\ comm'.off \in Floor .. Latest' /\ mission'.off \in Floor .. Latest'
    <3>1. comm.off \in Floor .. Latest /\ mission.off \in Floor .. Latest
      BY <1>0 DEF TimesOK
    <3>2. Floor \in Floor .. Latest
      BY <2>0 DEF Floor
    <3> QED
      BY <1>1, <1>2, <2>0, <3>1, <3>2, Zenon
  <2>2. mission'.pc = "changed" /\ mission'.shift = 1 => turnOff' < Latest' /\ comm'.off < Latest'
    <3>1. Floor < Latest
      BY <2>0 DEF Floor
    <3>2. mission.pc = "changed" /\ mission.shift = 1 => comm.off < Latest
      BY <1>0 DEF TimesOK
    <3> QED
      BY <1>1, <1>2, <2>0, <3>1, <3>2, Zenon
  <2> QED
    <3>1. troubles' \in 0 .. MaxTroubles /\ (mission'.pc = "changed" => troubles' >= 1)
      BY <1>0, <1>1 DEF TimesOK
    <3> QED
      BY <2>1, <2>2, <3>1 DEF TimesOK
<1> QED
  BY <1>3, <1>4, <1>5, <1>6 DEF CommInv

(* RemoveFrame: only a frame that was handled, damaged or tried RetryCount  *)
(* times leaves the receiver (comm.cpp:791).                                *)
LEMMA RemoveFrameKeeps == CommInv /\ RemoveFrame => CommInv'
<1> SUFFICES ASSUME CommInv, RemoveFrame PROVE CommInv'
  OBVIOUS
<1>0. TasksOK /\ FramesOK /\ LossesPaid /\ Repeats /\ IdleOK /\ TimesOK /\ comm \in CommRecord
  BY DEF CommInv, TasksOK, CommRecord
<1>1. /\ comm.pc = "remove"
      /\ UNCHANGED <<stuck, hwIdle, ping, mission, idleLock, idleState, turnOff, arrived>>
      /\ UNCHANGED <<readable, handled, repeated, flushed, readFailures, restartFailed>>
      /\ comm' = [comm EXCEPT !.left = @ - 1, !.tries = RetryCount,
                              !.pc = IF comm.left > 1 THEN "get" ELSE "kick"]
      /\ \/ rx' = (IF rx = <<>> THEN rx ELSE Tail(rx)) /\ UNCHANGED removeFailed
         \/ rx' = rx /\ removeFailed' = removeFailed \cup {f.id : f \in ToSet(SubSeq(rx, 1, 1))}
  BY Zenon DEF RemoveFrame, idleVars
<1>2. troubles' \in {troubles, troubles + 1} /\ troubles' <= MaxTroubles
  <2>1. troubles' = troubles \/ (troubles < MaxTroubles /\ troubles' = troubles + 1)
    BY Zenon DEF RemoveFrame, BusOk, BusFault, Trouble
  <2> QED
    BY <1>0, <2>1, TroublesCounted
<1>3. /\ comm.left \in 0 .. ReceiverBufferSize /\ comm.left >= 1 /\ comm.left <= Len(rx)
      /\ rx \in Seq(Frames) /\ Len(rx) \in Nat /\ rx # <<>> /\ Len(rx) >= 1 /\ rx[1] \in Frames
  <2>1. comm.left \in 0 .. ReceiverBufferSize /\ comm.left >= 1 /\ comm.left <= Len(rx)
    BY <1>0, <1>1 DEF TasksOK, Busy, Done
  <2>2. rx \in Seq(Frames)
    BY <1>0 DEF FramesOK
  <2> QED
    BY <2>1, <2>2, CommConstants
<1>4. /\ comm' \in CommRecord /\ comm'.left = comm.left - 1 /\ comm'.tries = RetryCount /\ comm'.off = comm.off
      /\ comm'.pc = "kick" \/ (comm'.pc = "get" /\ comm.left > 1)
  <2>1. comm.left - 1 \in 0 .. ReceiverBufferSize /\ RetryCount \in 0 .. RetryCount
    BY <1>3, CommConstants
  <2>2. (IF comm.left > 1 THEN "get" ELSE "kick") \in CommPcs
    BY DEF CommPcs
  <2> QED
    BY <1>0, <1>1, <2>1, <2>2 DEF CommRecord
<1>5. /\ Len(Tail(rx)) = Len(rx) - 1 /\ Tail(rx) \in Seq(Frames)
      /\ \A i \in 1 .. Len(rx) - 1 : Tail(rx)[i] = rx[i + 1]
  BY <1>3
<1>6. \/ rx' = Tail(rx) /\ removeFailed' = removeFailed
      \/ rx' = rx /\ removeFailed' = removeFailed \cup {rx[1].id}
  <2>1. DOMAIN SubSeq(rx, 1, 1) = {1} /\ SubSeq(rx, 1, 1)[1] = rx[1]
    BY <1>3
  <2>2. ToSet(SubSeq(rx, 1, 1)) = {rx[1]}
    BY <2>1 DEF ToSet
  <2>3. {f.id : f \in ToSet(SubSeq(rx, 1, 1))} = {rx[1].id}
    BY <2>2
  <2> QED
    BY <1>1, <1>3, <2>3
<1>7. TasksOK'
  <2>1. mission' \in MissionRecord /\ ping' \in BOOLEAN
    BY <1>0, <1>1 DEF TasksOK, MissionRecord
  <2>2. comm'.pc \in Busy => comm'.left >= 1 /\ comm'.left <= Len(rx')
    <3>1. comm'.pc \in Busy => comm.left > 1
      BY <1>4 DEF Busy, Done, Entering, Locked
    <3>2. Len(rx') \in {Len(rx), Len(rx) - 1}
      BY <1>5, <1>6
    <3>3. comm.left > 1 => comm.left - 1 >= 1 /\ comm.left - 1 <= Len(rx) /\ comm.left - 1 <= Len(rx) - 1
      BY <1>3
    <3> QED
      BY <1>4, <3>1, <3>2, <3>3
  <2>3. comm'.pc = "get" => comm'.tries >= 1
    BY <1>4, CommConstants
  <2> QED
    BY <1>4, <2>1, <2>2, <2>3, TasksKept
<1>8. FramesOK'
  <2>1. CASE rx' = Tail(rx)
    <3>1. rx' \in Seq(Frames) /\ Len(rx') <= ReceiverBufferSize
      BY <1>0, <1>3, <1>5, <2>1, CommConstants DEF FramesOK
    <3>2. \A i \in 1 .. Len(rx') : i + 1 \in 1 .. Len(rx) /\ rx'[i] = rx[i + 1]
      BY <1>3, <1>5, <2>1
    <3>3. \A i, j \in 1 .. Len(rx') : i < j => i + 1 < j + 1
      BY <1>3, <1>5, <2>1
    <3>4. \A i \in 1 .. Len(rx') :
             /\ rx'[i].id <= arrived' /\ (rx'[i].kind = "damaged" <=> rx'[i].id \notin readable')
             /\ \A j \in 1 .. Len(rx') : i < j => rx'[i].id < rx'[j].id
      BY <1>0, <1>1, <3>2, <3>3 DEF FramesOK
    <3>5. stuck' \in BOOLEAN /\ arrived' \in 0 .. MaxFrames /\ readable' \subseteq 1 .. arrived' /\ handled' \subseteq 1 .. arrived'
      BY <1>0, <1>1 DEF FramesOK
    <3> QED
      BY <3>1, <3>4, <3>5, Zenon DEF FramesOK
  <2>2. CASE rx' = rx
    BY <1>0, <1>1, <2>2, FramesKept DEF FramesOK
  <2> QED
    BY <1>6, <2>1, <2>2
<1>9. LossesPaid'
  <2>1. Spent \in Nat /\ Spent' = 0 /\ comm'.pc \notin Entering
    <3>1. Spent \in Nat
      BY <1>0, SpentTyped DEF TasksOK
    <3>2. comm'.pc = "get" => RetryCount - comm'.tries = 0
      BY <1>4, CommConstants
    <3>3. Spent' = 0
      BY <1>4, <3>2 DEF Spent
    <3> QED
      BY <1>4, <3>1, <3>3 DEF Entering, Locked
  <2>2. readFailures' = readFailures /\ readFailures \in Nat
    BY <1>0, <1>1 DEF LossesPaid
  <2>3. Spent' - Spent <= readFailures' - readFailures /\ Spent' \in Nat /\ readFailures' \in Nat
    <3>1. \A a, b \in Nat : 0 - a <= b - b
      OBVIOUS
    <3> QED
      BY <2>1, <2>2, <3>1
  <2>4. {f.id : f \in ToSet(rx)} \subseteq {f.id : f \in ToSet(rx')} \cup {rx[1].id}
    <3>1. CASE rx' = rx
      BY <3>1
    <3>2. CASE rx' = Tail(rx)
      <4> SUFFICES ASSUME NEW f \in ToSet(rx), f.id # rx[1].id
                   PROVE  f \in ToSet(rx')
        OBVIOUS
      <4>0. PICK i \in 1 .. Len(rx) : f = rx[i] /\ i # 1
        BY <1>3 DEF ToSet
      <4>1. i - 1 \in 1 .. Len(rx) - 1 /\ (i - 1) + 1 = i
        BY <1>3, <4>0
      <4>2. i - 1 \in DOMAIN rx' /\ rx'[i - 1] = f
        BY <1>3, <1>5, <3>2, <4>0, <4>1
      <4> QED
        BY <4>2 DEF ToSet
    <3> QED
      BY <1>6, <3>1, <3>2
  <2>5. Lost' \subseteq Lost \cup {rx[1].id}
    BY <1>1, <2>4 DEF Lost
  <2>6. CASE Unread
    <3>1. Spent = RetryCount
      BY <1>1, <2>6 DEF Spent
    <3> QED
      BY <1>0, <2>1, <2>2, <2>5, <3>1, LossesOneMore
  <2>7. CASE ~Unread
    <3>1. rx[1].id \notin readable \/ rx[1].id \in handled
      BY <1>0, <1>3, <2>7 DEF Unread, FramesOK
    <3>2. rx[1].id \notin Lost'
      BY <1>1, <3>1 DEF Lost
    <3>3. Lost' \subseteq Lost
      BY <2>5, <3>2
    <3> QED
      BY <1>0, <2>1, <2>3, <3>3, LossesFewer
  <2> QED
    BY <2>6, <2>7
<1>10. Repeats'
  <2> SUFFICES ASSUME ~restartFailed
               PROVE  /\ repeated' \subseteq removeFailed'
                      /\ \A i \in 1 .. Len(rx') : rx'[i].id \in handled' => rx'[i].id \in removeFailed'
    BY <1>1 DEF Repeats
  <2>1. repeated' \subseteq removeFailed'
    BY <1>0, <1>1, <1>6 DEF Repeats
  <2>2. \A i \in 1 .. Len(rx) : i # 1 /\ rx[i].id \in handled => rx[i].id \in removeFailed
    BY <1>0 DEF Repeats
  <2>3. CASE rx' = Tail(rx) /\ removeFailed' = removeFailed
    <3>1. \A i \in 1 .. Len(rx') : i + 1 \in 1 .. Len(rx) /\ rx'[i] = rx[i + 1] /\ i + 1 # 1
      BY <1>3, <1>5, <2>3
    <3> QED
      BY <1>1, <2>1, <2>2, <2>3, <3>1
  <2>4. CASE rx' = rx /\ removeFailed' = removeFailed \cup {rx[1].id}
    BY <1>1, <2>1, <2>2, <2>4
  <2> QED
    BY <1>6, <2>3, <2>4
<1>11. IdleOK'
  BY <1>0, <1>1, <1>4, IdleKept DEF Locked
<1>12. TimesOK'
  BY <1>0, <1>1, <1>2, <1>4, TimesKept
<1> QED
  BY <1>7, <1>8, <1>9, <1>10, <1>11, <1>12 DEF CommInv

(* The end of a poll and the wait for the next one.                         *)
LEMMA EndOfPollKeeps == CommInv /\ (EndOfPoll \/ WaitTimesOut) => CommInv'
<1> SUFFICES ASSUME CommInv, EndOfPoll \/ WaitTimesOut PROVE CommInv'
  OBVIOUS
<1>0. TasksOK /\ FramesOK /\ LossesPaid /\ Repeats /\ IdleOK /\ TimesOK /\ comm \in CommRecord
  BY DEF CommInv, TasksOK, CommRecord
<1>1. /\ comm.pc \in {"kick", "wait"}
      /\ UNCHANGED <<rx, stuck, hwIdle, mission, idleLock, idleState, turnOff, arrived, troubles>>
      /\ UNCHANGED history /\ UNCHANGED restartFailed
      /\ comm' = CommStart \/ CommGoes("wait")
      /\ ping' = ping \/ ping' = TRUE
  BY Zenon DEF EndOfPoll, WaitTimesOut, hardware, idleVars, counters, history
<1>2. comm' \in CommRecord /\ comm'.pc \in {"count", "wait"} /\ comm'.off \in {comm.off, Floor}
  BY <1>0, <1>1, CommMoves, StartsTyped DEF CommPcs
<1>3. TasksOK'
  <2>1. mission' \in MissionRecord /\ ping' \in BOOLEAN
    <3>1. mission' \in MissionRecord /\ ping \in BOOLEAN
      BY <1>0, <1>1 DEF TasksOK, MissionRecord
    <3>2. CASE ping' = ping
      BY <3>1, <3>2, Zenon
    <3>3. CASE ping' = TRUE
      BY <3>1, <3>3, Zenon
    <3> QED
      BY <1>1, <3>2, <3>3, Zenon
  <2>2. comm'.pc \notin Busy /\ comm'.pc # "get"
    BY <1>2 DEF Busy, Done, Entering, Locked
  <2> QED
    BY <1>2, <2>1, <2>2, TasksKept
<1>4. FramesOK' /\ LossesPaid' /\ Repeats'
  <2>1. comm'.pc \notin {"get", "remove"} /\ comm'.pc \notin Entering /\ comm.pc \notin Done
    BY <1>1, <1>2 DEF Entering, Done, Locked
  <2>2. stuck' \in BOOLEAN
    BY <1>0, <1>1 DEF FramesOK
  <2> QED
    BY <1>1, <2>1, <2>2, FramesAlone
<1>5. IdleOK'
  BY <1>0, <1>1, <1>2, IdleKept DEF Locked
<1>6. TimesOK'
  <2>1. troubles' <= MaxTroubles
    BY <1>0, <1>1, TroublesCounted
  <2> QED
    BY <1>0, <1>1, <1>2, <2>1, TimesKept
<1> QED
  BY <1>3, <1>4, <1>5, <1>6 DEF CommInv

(* The steps of the mission loop.                                           *)
LEMMA MissionKeeps ==
    ASSUME CommInv, UNCHANGED <<rx, stuck, comm, arrived, history>>,
           mission' \in MissionRecord, ping' \in BOOLEAN
    PROVE  TasksOK' /\ FramesOK' /\ LossesPaid' /\ Repeats'
<1>0. TasksOK /\ FramesOK /\ comm \in CommRecord
  BY DEF CommInv, TasksOK, CommRecord
<1>1. TasksOK'
  BY <1>0, TasksKept DEF TasksOK
<1>2. stuck' \in BOOLEAN
  BY <1>0 DEF FramesOK
<1>3. FramesOK' /\ LossesPaid' /\ Repeats'
  BY <1>2, FramesAlone
<1> QED
  BY <1>1, <1>3

(* A step of the mission loop that only moves on.                           *)
LEMMA QuietKeeps ==
    ASSUME CommInv, UNCHANGED <<hardware, comm, idleVars, counters, history>>, ping' \in BOOLEAN,
           mission' \in MissionRecord, mission'.off \in {mission.off, Floor},
           mission.pc # "leave hw", mission'.pc \notin {"changed", "leave hw"}
    PROVE  CommInv'
<1>0. TasksOK /\ FramesOK /\ LossesPaid /\ Repeats /\ IdleOK /\ TimesOK /\ comm \in CommRecord
  BY DEF CommInv, TasksOK, CommRecord
<1>1. /\ UNCHANGED <<rx, stuck, hwIdle, comm, idleLock, idleState, turnOff, arrived, troubles>>
      /\ UNCHANGED <<history, restartFailed>>
  BY DEF hardware, idleVars, counters, history
<1>2. TasksOK' /\ FramesOK' /\ LossesPaid' /\ Repeats'
  BY <1>1, MissionKeeps
<1>3. IdleOK'
  BY <1>0, <1>1, IdleKept
<1>4. TimesOK'
  <2>1. troubles' <= MaxTroubles
    BY <1>0, <1>1, TroublesCounted
  <2> QED
    BY <1>0, <1>1, <2>1, TimesKept
<1> QED
  BY <1>2, <1>3, <1>4 DEF CommInv

(* Evaluating the condition, kicking the EPS and taking the ping.           *)
LEMMA MissionQuietKeeps == CommInv /\ (Determine \/ KickEps \/ WaitForComLoop) => CommInv'
<1> SUFFICES ASSUME CommInv, Determine \/ KickEps \/ WaitForComLoop PROVE CommInv'
  OBVIOUS
<1>0. TasksOK /\ mission \in MissionRecord /\ ping \in BOOLEAN
  BY DEF CommInv, TasksOK, MissionRecord
<1>1. CASE Determine
  <2>1. /\ mission.pc = "determine" /\ UNCHANGED <<hardware, comm, ping, idleVars, counters, history>>
        /\ mission' = [mission EXCEPT !.pc = "time", !.due = idleState /\ turnOff <= 0]
    BY <1>1 DEF Determine
  <2>2. (idleState /\ turnOff <= 0) \in BOOLEAN /\ "time" \in MissionPcs
    BY DEF MissionPcs
  <2>3. mission' \in MissionRecord /\ mission'.pc = "time" /\ mission'.off = mission.off
    BY <1>0, <2>1, <2>2 DEF MissionRecord
  <2>4. ping' \in BOOLEAN
    BY <1>0, <2>1, Zenon
  <2> QED
    BY <2>1, <2>3, <2>4, QuietKeeps
<1>2. CASE KickEps
  <2>1. /\ mission.pc = "eps" /\ UNCHANGED <<hardware, comm, ping, idleVars, counters, history>>
        /\ MissionGoes("wait ping")
    BY <1>2 DEF KickEps
  <2>2. mission' \in MissionRecord /\ mission'.pc = "wait ping" /\ mission'.off = mission.off
    BY <1>0, <2>1, MissionMoves DEF MissionPcs
  <2>3. ping' \in BOOLEAN
    BY <1>0, <2>1, Zenon
  <2> QED
    BY <2>1, <2>2, <2>3, QuietKeeps
<1>3. CASE WaitForComLoop
  <2>1. /\ mission.pc = "wait ping" /\ UNCHANGED <<hardware, comm, idleVars, counters, history>>
        /\ mission' = MissionStart /\ ping' = FALSE
    BY <1>3 DEF WaitForComLoop
  <2>2. mission' \in MissionRecord /\ mission'.pc = "determine" /\ mission'.off = Floor
    BY <2>1, StartsTyped
  <2>3. ping' \in BOOLEAN
    BY <2>1, Zenon
  <2> QED
    BY <2>1, <2>2, <2>3, QuietKeeps
<1> QED
  BY <1>1, <1>2, <1>3

(* LeaveTransmitterStateWhenIdle takes the lock or is not due.              *)
LEMMA LeaveIdleLockKeeps == CommInv /\ LeaveIdleLock => CommInv'
<1> SUFFICES ASSUME CommInv, LeaveIdleLock PROVE CommInv'
  OBVIOUS
<1>0. TasksOK /\ IdleOK /\ TimesOK /\ ping \in BOOLEAN
  BY DEF CommInv, TasksOK
<1>1. /\ mission.pc = "comm" /\ UNCHANGED <<hardware, comm, ping, idleState, turnOff, counters, history>>
      /\ \/ MissionGoes("eps") /\ idleLock' = idleLock
         \/ MissionGoes("leave hw") /\ idleLock = "free" /\ idleLock' = "mission"
  BY Zenon DEF LeaveIdleLock
<1>2. /\ mission' \in MissionRecord /\ mission'.off = mission.off
      /\ \/ mission'.pc = "eps" /\ idleLock' = idleLock
         \/ mission'.pc = "leave hw" /\ idleLock = "free" /\ idleLock' = "mission"
  BY <1>0, <1>1, MissionMoves DEF MissionPcs
<1>3. UNCHANGED <<rx, stuck, hwIdle, comm, ping, idleState, turnOff, arrived, troubles, restartFailed>>
  BY <1>1 DEF hardware, counters, history
<1>4. TasksOK' /\ FramesOK' /\ LossesPaid' /\ Repeats'
  <2>1. ping' \in BOOLEAN
    BY <1>0, <1>3, Zenon
  <2> QED
    BY <1>1, <1>2, <1>3, <2>1, MissionKeeps
<1>5. IdleOK'
  <2>1. /\ idleLock' \in {"free", "comm", "mission"} /\ (idleLock' = "comm" <=> comm'.pc \in Locked)
        /\ idleLock' = "mission" <=> mission'.pc = "leave hw"
    BY <1>0, <1>1, <1>2, <1>3 DEF IdleOK
  <2>2. hwIdle' \in BOOLEAN /\ idleState' \in BOOLEAN /\ restartFailed' \in BOOLEAN
    BY <1>0, <1>3, Zenon DEF IdleOK
  <2>3. hwIdle' /\ ~restartFailed' => idleState' \/ comm'.pc = "enter flag"
    BY <1>0, <1>3, Zenon DEF IdleOK
  <2> QED
    BY <2>1, <2>2, <2>3, Zenon DEF IdleOK
<1>6. TimesOK'
  <2>1. troubles' <= MaxTroubles
    BY <1>0, <1>3, TroublesCounted
  <2> QED
    BY <1>0, <1>2, <1>3, <2>1, TimesKept
<1> QED
  BY <1>4, <1>5, <1>6 DEF CommInv

(* The flag is cleared only when the transmitter was switched               *)
(* (mission/comm/comm.cpp:49).                                              *)
LEMMA LeaveIdleKeeps == CommInv /\ LeaveIdle => CommInv'
<1> SUFFICES ASSUME CommInv, LeaveIdle PROVE CommInv'
  OBVIOUS
<1>0. TasksOK /\ IdleOK /\ TimesOK /\ ping \in BOOLEAN
  BY DEF CommInv, TasksOK
<1>1. /\ mission.pc = "leave hw" /\ UNCHANGED <<rx, stuck, comm, ping, turnOff, arrived, history>>
      /\ MissionGoes("eps") /\ idleLock' = "free"
      /\ \/ hwIdle' = FALSE /\ idleState' = FALSE
         \/ UNCHANGED <<hwIdle, idleState>>
  BY Zenon DEF LeaveIdle
<1>2. troubles' \in {troubles, troubles + 1} /\ troubles' <= MaxTroubles
  <2>1. troubles' = troubles \/ (troubles < MaxTroubles /\ troubles' = troubles + 1)
    BY Zenon DEF LeaveIdle, BusOk, BusFault, Trouble
  <2> QED
    BY <1>0, <2>1, TroublesCounted
<1>3. /\ mission' \in MissionRecord /\ mission'.off = mission.off /\ mission'.pc = "eps"
  BY <1>0, <1>1, MissionMoves DEF MissionPcs
<1>4. TasksOK' /\ FramesOK' /\ LossesPaid' /\ Repeats'
  <2>1. ping' \in BOOLEAN
    BY <1>0, <1>1, Zenon
  <2> QED
    BY <1>1, <1>3, <2>1, MissionKeeps
<1>5. IdleOK'
  <2>1. idleLock = "mission" /\ comm.pc \notin Locked /\ comm' = comm /\ restartFailed' = restartFailed
    BY <1>0, <1>1 DEF IdleOK, history
  <2>2. hwIdle' \in BOOLEAN /\ idleState' \in BOOLEAN /\ (hwIdle' /\ ~restartFailed => idleState')
    <3>1. CASE hwIdle' = FALSE /\ idleState' = FALSE
      BY <3>1, Zenon
    <3>2. CASE UNCHANGED <<hwIdle, idleState>>
      BY <1>0, <2>1, <3>2 DEF IdleOK, Locked
    <3> QED
      BY <1>1, <3>1, <3>2, Zenon
  <2>3. /\ restartFailed' \in BOOLEAN /\ idleLock' \in {"free", "comm", "mission"}
        /\ idleLock' # "comm" /\ idleLock' # "mission" /\ comm'.pc \notin Locked /\ mission'.pc # "leave hw"
    BY <1>0, <1>1, <1>3, <2>1 DEF IdleOK
  <2> QED
    BY <2>1, <2>2, <2>3, Zenon DEF IdleOK
<1>6. TimesOK'
  BY <1>0, <1>1, <1>2, <1>3, TimesKept
<1> QED
  BY <1>4, <1>5, <1>6 DEF CommInv

(* A time bounded from below stays under a bound above it.                  *)
LEMMA BoundedTimes ==
    \A t, m \in Int : Floor <= m /\ t <= m => Bounded(t) \in Floor .. m
BY DEF Bounded, Floor

(* A correction moves the times by one, and is a failure that raises Latest.*)
LEMMA CorrectTimeKeeps == CommInv /\ CorrectTime => CommInv'
<1> SUFFICES ASSUME CommInv, CorrectTime PROVE CommInv'
  OBVIOUS
<1>0. /\ TasksOK /\ FramesOK /\ LossesPaid /\ Repeats /\ IdleOK /\ TimesOK
      /\ comm \in CommRecord /\ mission \in MissionRecord /\ ping \in BOOLEAN
  BY DEF CommInv, TasksOK, CommRecord, MissionRecord
<1>1. mission.pc = "time" /\ UNCHANGED <<hardware, ping, idleLock, idleState, arrived, history>>
  BY DEF CorrectTime
<1>2. UNCHANGED <<rx, stuck, hwIdle, ping, idleLock, idleState, arrived, restartFailed>> /\ UNCHANGED history
  BY <1>1 DEF hardware, history
<1>3. CASE MissionGoes("comm") /\ UNCHANGED <<troubles, turnOff, comm>>
  <2>1. mission' \in MissionRecord /\ mission'.pc = "comm" /\ mission'.off = mission.off
    BY <1>0, <1>3, MissionMoves DEF MissionPcs
  <2>2. ping' \in BOOLEAN /\ UNCHANGED <<hardware, comm, idleVars, counters, history>>
    BY <1>0, <1>1, <1>2, <1>3, Zenon DEF idleVars, counters
  <2> QED
    BY <1>1, <2>1, <2>2, QuietKeeps
<1>4. ASSUME NEW d \in {-1, 1}, Trouble,
             mission' = [mission EXCEPT !.pc = "changed", !.shift = d],
             turnOff' = Bounded(turnOff - d), comm' = [comm EXCEPT !.off = Bounded(@ - d)]
      PROVE  CommInv'
  <2>1. /\ mission' \in MissionRecord /\ mission'.pc = "changed" /\ mission'.shift = d
        /\ mission'.off = mission.off
    <3>1. d \in -1 .. 1 /\ "changed" \in MissionPcs
      BY <1>4 DEF MissionPcs
    <3> QED
      BY <1>0, <1>4, <3>1 DEF MissionRecord
  <2>2. troubles \in 0 .. MaxTroubles /\ troubles' = troubles + 1 /\ troubles < MaxTroubles
    BY <1>0, <1>4 DEF Trouble, TimesOK
  <2>3. troubles' \in 0 .. MaxTroubles /\ Latest' = Latest + 1 /\ Latest \in Nat /\ troubles' >= 1
    <3>1. troubles' \in 0 .. MaxTroubles /\ Latest \in Nat /\ Latest' = Latest + (troubles' - troubles)
      BY <1>0, <2>2, TroublesCounted
    <3>2. troubles' - troubles = 1 /\ troubles' >= 1
      BY <2>2
    <3> QED
      BY <3>1, <3>2
  <2>4. /\ turnOff \in Int /\ turnOff <= Latest /\ comm.off \in Int /\ comm.off <= Latest
        /\ mission.off \in Floor .. Latest /\ Floor = -1
    BY <1>0, <2>3 DEF TimesOK, Floor
  <2>5. \A l \in Nat : \A t \in Int : t <= l =>
           /\ Bounded(t - d) \in Int /\ Bounded(t - d) \in Floor .. l + 1
           /\ d = 1 => Bounded(t - d) < l + 1
    BY <1>4 DEF Bounded, Floor
  <2>6. Bounded(comm.off - d) \in Int
    BY <2>3, <2>4, <2>5
  <2>7. /\ comm' \in CommRecord /\ comm'.pc = comm.pc /\ comm'.tries = comm.tries /\ comm'.left = comm.left
        /\ comm'.off = Bounded(comm.off - d)
    BY <1>0, <1>4, <2>6 DEF CommRecord
  <2>8. TasksOK'
    <3>1. ping' \in BOOLEAN
      BY <1>0, <1>2, Zenon
    <3>2. comm'.pc \in Busy => comm'.left >= 1 /\ comm'.left <= Len(rx')
      BY <1>0, <1>2, <2>7 DEF TasksOK
    <3>3. comm'.pc = "get" => comm'.tries >= 1
      BY <1>0, <2>7 DEF TasksOK
    <3> QED
      BY <2>1, <2>7, <3>1, <3>2, <3>3, TasksKept
  <2>9. FramesOK' /\ LossesPaid' /\ Repeats'
    <3>1. stuck' \in BOOLEAN
      BY <1>0, <1>2 DEF FramesOK
    <3> QED
      BY <1>2, <2>7, <3>1, FramesAlone
  <2>10. IdleOK'
    BY <1>0, <1>1, <1>2, <2>1, <2>7, IdleKept
  <2>11. TimesOK'
    <3>1. turnOff' \in Floor .. Latest + 1 /\ comm'.off \in Floor .. Latest + 1
      BY <1>4, <2>3, <2>4, <2>5, <2>7
    <3>2. mission'.off \in Floor .. Latest + 1
      BY <2>1, <2>3, <2>4
    <3>3. mission'.shift = 1 => turnOff' < Latest + 1 /\ comm'.off < Latest + 1
      BY <1>4, <2>1, <2>3, <2>4, <2>5, <2>7
    <3> QED
      BY <2>1, <2>3, <3>1, <3>2, <3>3, Zenon DEF TimesOK
  <2> QED
    BY <2>8, <2>9, <2>10, <2>11 DEF CommInv
<1> QED
  BY <1>3, <1>4 DEF CorrectTime

(* TimeChanged adds the correction back without the lock; what it writes is *)
(* within Latest.                                                           *)
LEMMA TimeChangedKeeps == CommInv /\ (TimeChangedRead \/ TimeChangedWrite) => CommInv'
<1> SUFFICES ASSUME CommInv, TimeChangedRead \/ TimeChangedWrite PROVE CommInv'
  OBVIOUS
<1>0. /\ TasksOK /\ IdleOK /\ TimesOK /\ mission \in MissionRecord /\ ping \in BOOLEAN
  BY DEF CommInv, TasksOK, MissionRecord
<1>1. UNCHANGED <<hardware, comm, ping, idleLock, idleState, counters, history>>
  BY DEF TimeChangedRead, TimeChangedWrite, idleVars
<1>2. UNCHANGED <<rx, stuck, hwIdle, comm, ping, idleLock, idleState, arrived, restartFailed, troubles>> /\ UNCHANGED history
  BY <1>1 DEF hardware, history, counters
<1>3. Latest \in Nat /\ Latest' = Latest /\ troubles' \in 0 .. MaxTroubles
  BY <1>0, <1>2, TroublesCounted DEF Latest
<1>4. turnOff \in Floor .. Latest /\ comm.off \in Floor .. Latest /\ mission.off \in Floor .. Latest
  BY <1>0 DEF TimesOK
<1>5. /\ mission' \in MissionRecord /\ mission.pc \in {"changed", "shift"} /\ mission'.pc \in {"shift", "comm"}
      /\ mission'.off \in Floor .. Latest /\ turnOff' \in Floor .. Latest
  <2>1. CASE TimeChangedRead
    <3>1. /\ mission.pc = "changed" /\ turnOff' = turnOff
          /\ mission' = [mission EXCEPT !.pc = "shift", !.off = Bounded(turnOff + mission.shift)]
      BY <2>1 DEF TimeChangedRead, idleVars
    <3>2. mission.shift \in -1 .. 1 /\ (mission.shift = 1 => turnOff < Latest)
      BY <1>0, <3>1 DEF TimesOK, MissionRecord
    <3>3. turnOff + mission.shift \in Int /\ turnOff + mission.shift <= Latest /\ Floor <= Latest
      BY <1>3, <1>4, <3>2 DEF Floor
    <3>4. Bounded(turnOff + mission.shift) \in Floor .. Latest
      BY <1>3, <3>3, BoundedTimes
    <3>5. Bounded(turnOff + mission.shift) \in Int /\ "shift" \in MissionPcs
      BY <3>4 DEF MissionPcs, Floor
    <3>6. mission' \in MissionRecord /\ mission'.pc = "shift" /\ mission'.off = Bounded(turnOff + mission.shift)
      BY <1>0, <3>1, <3>5 DEF MissionRecord
    <3> QED
      BY <1>4, <3>1, <3>4, <3>6
  <2>2. CASE TimeChangedWrite
    <3>1. /\ mission.pc = "shift" /\ turnOff' = mission.off
          /\ mission' = [mission EXCEPT !.pc = "comm", !.shift = 0, !.off = Floor]
      BY <2>2 DEF TimeChangedWrite
    <3>2. Floor \in Int /\ "comm" \in MissionPcs /\ 0 \in -1 .. 1 /\ Floor \in Floor .. Latest
      BY <1>3 DEF MissionPcs, Floor
    <3>3. mission' \in MissionRecord /\ mission'.pc = "comm" /\ mission'.off = Floor
      BY <1>0, <3>1, <3>2 DEF MissionRecord
    <3> QED
      BY <1>4, <3>1, <3>2, <3>3
  <2> QED
    BY <2>1, <2>2
<1>6. TasksOK' /\ FramesOK' /\ LossesPaid' /\ Repeats'
  <2>1. ping' \in BOOLEAN
    BY <1>0, <1>2, Zenon
  <2> QED
    BY <1>2, <1>5, <2>1, MissionKeeps
<1>7. IdleOK'
  BY <1>0, <1>2, <1>5, IdleKept
<1>8. TimesOK'
  BY <1>2, <1>3, <1>4, <1>5 DEF TimesOK
<1> QED
  BY <1>6, <1>7, <1>8 DEF CommInv

(* The receiver, the passing of time and the resets.                        *)
LEMMA FrameArrivesKeeps == CommInv /\ FrameArrives => CommInv'
<1> SUFFICES ASSUME CommInv, FrameArrives PROVE CommInv'
  OBVIOUS
<1>0. TasksOK /\ FramesOK /\ LossesPaid /\ Repeats /\ IdleOK /\ TimesOK
  BY DEF CommInv
<1>1. /\ arrived < MaxFrames /\ arrived' = arrived + 1 /\ Len(rx) < ReceiverBufferSize
      /\ UNCHANGED <<stuck, hwIdle, comm, ping, mission, idleLock, idleState, turnOff, troubles>>
      /\ UNCHANGED <<handled, repeated, removeFailed, flushed, readFailures, restartFailed>>
  BY DEF FrameArrives, idleVars
<1>2. PICK k \in Kinds :
         /\ rx' = Append(rx, [id |-> arrived + 1, kind |-> k])
         /\ readable' = IF k = "damaged" THEN readable ELSE readable \cup {arrived + 1}
  BY DEF FrameArrives
<1> DEFINE new == [id |-> arrived + 1, kind |-> k]
<1>3. /\ rx \in Seq(Frames) /\ Len(rx) \in Nat /\ arrived \in 0 .. MaxFrames /\ arrived \in Nat
      /\ arrived + 1 \in 1 .. MaxFrames /\ new \in Frames
  BY <1>0, <1>1, CommConstants DEF FramesOK, Frames
<1>4. /\ rx' \in Seq(Frames) /\ Len(rx') = Len(rx) + 1 /\ rx'[Len(rx) + 1] = new
      /\ \A i \in 1 .. Len(rx) : rx'[i] = rx[i]
  BY <1>2, <1>3
<1>5. \A i \in 1 .. Len(rx) : rx[i] \in Frames /\ rx[i].id \in Nat /\ rx[i].id <= arrived /\ rx[i].id # arrived + 1
  <2> SUFFICES ASSUME NEW i \in 1 .. Len(rx)
               PROVE  rx[i] \in Frames /\ rx[i].id \in Nat /\ rx[i].id <= arrived /\ rx[i].id # arrived + 1
    OBVIOUS
  <2>1. rx[i] \in Frames /\ rx[i].id <= arrived
    BY <1>0, <1>3 DEF FramesOK
  <2>2. rx[i].id \in Nat
    BY <2>1, CommConstants DEF Frames
  <2> QED
    BY <1>3, <2>1, <2>2
<1>6. \A i \in 1 .. Len(rx') : i \in 1 .. Len(rx) \/ i = Len(rx) + 1
  BY <1>3, <1>4
<1>7. TasksOK'
  <2>1. Len(rx) <= Len(rx')
    BY <1>3, <1>4
  <2>2. comm' = comm /\ mission' = mission /\ ping' = ping
    BY <1>1
  <2>3. comm \in CommRecord /\ mission \in MissionRecord /\ ping' \in BOOLEAN
    BY <1>0, <2>2, Zenon DEF TasksOK, CommRecord, MissionRecord
  <2>4. comm.pc \in Busy => comm.left >= 1 /\ comm.left <= Len(rx')
    BY <1>0, <1>3, <1>4, <2>3 DEF TasksOK, CommRecord
  <2>5. comm.pc = "get" => comm.tries >= 1
    BY <1>0 DEF TasksOK
  <2> QED
    BY <2>2, <2>3, <2>4, <2>5, TasksKept
<1>8. FramesOK'
  <2>1. stuck' \in BOOLEAN /\ arrived' \in 0 .. MaxFrames /\ rx' \in Seq(Frames) /\ Len(rx') <= ReceiverBufferSize
    BY <1>0, <1>1, <1>3, <1>4, CommConstants DEF FramesOK
  <2>2. readable' \subseteq 1 .. arrived' /\ handled' \subseteq 1 .. arrived'
    BY <1>0, <1>1, <1>2, <1>3 DEF FramesOK
  <2>3. \A i \in 1 .. Len(rx') :
           rx'[i].id <= arrived' /\ (rx'[i].kind = "damaged" <=> rx'[i].id \notin readable')
    <3> SUFFICES ASSUME NEW i \in 1 .. Len(rx')
                 PROVE  rx'[i].id <= arrived' /\ (rx'[i].kind = "damaged" <=> rx'[i].id \notin readable')
      OBVIOUS
    <3>1. CASE i \in 1 .. Len(rx)
      <4>1. rx'[i] = rx[i] /\ (rx[i].kind = "damaged" <=> rx[i].id \notin readable)
        BY <1>0, <1>4, <3>1 DEF FramesOK
      <4>2. rx[i].id <= arrived + 1 /\ rx[i].id # arrived + 1
        BY <1>3, <1>5, <3>1
      <4> QED
        BY <1>1, <1>2, <4>1, <4>2
    <3>2. CASE i = Len(rx) + 1
      <4>1. rx'[i].id = arrived + 1 /\ rx'[i].kind = k
        BY <1>4, <3>2
      <4>2. arrived + 1 \notin readable
        BY <1>0, <1>3 DEF FramesOK
      <4> QED
        BY <1>1, <1>2, <1>3, <4>1, <4>2
    <3> QED
      BY <1>6, <3>1, <3>2
  <2>4. \A i, j \in 1 .. Len(rx') : i < j => rx'[i].id < rx'[j].id
    <3> SUFFICES ASSUME NEW i \in 1 .. Len(rx'), NEW j \in 1 .. Len(rx'), i < j PROVE rx'[i].id < rx'[j].id
      OBVIOUS
    <3>1. i \in 1 .. Len(rx) /\ rx'[i] = rx[i]
      BY <1>3, <1>4
    <3>2. CASE j \in 1 .. Len(rx)
      BY <1>0, <1>4, <3>1, <3>2 DEF FramesOK
    <3>3. CASE j = Len(rx) + 1
      BY <1>3, <1>4, <1>5, <3>1, <3>3
    <3> QED
      BY <1>6, <3>2, <3>3
  <2> QED
    BY <2>1, <2>2, <2>3, <2>4 DEF FramesOK
<1>9. LossesPaid'
  <2>1. {f.id : f \in ToSet(rx')} = {f.id : f \in ToSet(rx)} \cup {arrived + 1}
    <3>1. \A f \in ToSet(rx) : f \in ToSet(rx')
      <4>1. \A i \in 1 .. Len(rx) : i \in 1 .. Len(rx') /\ rx'[i] = rx[i]
        BY <1>3, <1>4
      <4> QED
        BY <1>3, <1>4, <4>1 DEF ToSet
    <3>2. new \in ToSet(rx')
      <4>1. Len(rx) + 1 \in 1 .. Len(rx')
        BY <1>3, <1>4
      <4> QED
        BY <1>4, <4>1 DEF ToSet
    <3>3. \A f \in ToSet(rx') : f \in ToSet(rx) \/ f = new
      BY <1>3, <1>4, <1>6 DEF ToSet
    <3>4. new.id = arrived + 1
      OBVIOUS
    <3> QED
      BY <3>1, <3>2, <3>3, <3>4
  <2>2. Lost' \subseteq Lost
    BY <1>1, <1>2, <2>1 DEF Lost
  <2>3. comm.pc \in Busy => rx # <<>> /\ rx' # <<>> /\ rx'[1] = rx[1]
    <3> SUFFICES ASSUME comm.pc \in Busy PROVE rx # <<>> /\ rx' # <<>> /\ rx'[1] = rx[1]
      OBVIOUS
    <3>1. Len(rx) >= 1
      BY <1>0, <1>3 DEF TasksOK
    <3> QED
      BY <1>3, <1>4, <3>1
  <2>4. comm.pc \in Busy => Unread' = Unread
    <3> SUFFICES ASSUME comm.pc \in Busy PROVE Unread' = Unread
      OBVIOUS
    <3> QED
      BY <1>1, <2>3 DEF Unread
  <2>5. Spent' = Spent
    BY <1>1, <2>4 DEF Spent, Busy, Done
  <2>6. comm'.pc \in Entering => ~Unread'
    BY <1>0, <1>1, <2>4 DEF LossesPaid, Busy, Done
  <2>7. readFailures' = readFailures /\ readFailures \in Nat /\ Spent \in Nat
    BY <1>0, <1>1, SpentTyped DEF LossesPaid, TasksOK
  <2>8. readFailures' \in Nat /\ Spent' \in Nat /\ Spent' - Spent <= readFailures' - readFailures
    <3>1. \A a, b \in Nat : a - a <= b - b
      OBVIOUS
    <3> QED
      BY <2>5, <2>7, <3>1
  <2> QED
    BY <1>0, <2>2, <2>6, <2>7, <2>8, LossesFewer
<1>10. Repeats'
  <2> SUFFICES ASSUME ~restartFailed
               PROVE  /\ repeated \subseteq removeFailed
                      /\ \A i \in 1 .. Len(rx') :
                            rx'[i].id \in handled => rx'[i].id \in removeFailed \/ (i = 1 /\ comm.pc \in Done)
    BY <1>1 DEF Repeats
  <2>1. repeated \subseteq removeFailed
    BY <1>0 DEF Repeats
  <2>2. arrived + 1 \notin handled
    BY <1>0, <1>3 DEF FramesOK
  <2>3. rx'[Len(rx) + 1].id \notin handled
    BY <1>4, <2>2
  <2>4. \A i \in 1 .. Len(rx) :
           rx'[i].id \in handled => rx'[i].id \in removeFailed \/ (i = 1 /\ comm.pc \in Done)
    BY <1>0, <1>4 DEF Repeats
  <2> QED
    BY <1>6, <2>1, <2>3, <2>4
<1>11. IdleOK'
  BY <1>0, <1>1, IdleKept
<1>12. TimesOK'
  <2>1. troubles' <= MaxTroubles
    BY <1>0, <1>1, TroublesCounted
  <2> QED
    BY <1>0, <1>1, <2>1, TimesKept
<1> QED
  BY <1>7, <1>8, <1>9, <1>10, <1>11, <1>12 DEF CommInv

(* A receiver that refuses to remove frames loses none.                     *)
LEMMA ReceiverSticksKeeps == CommInv /\ ReceiverSticks => CommInv'
<1> SUFFICES ASSUME CommInv, ReceiverSticks PROVE CommInv'
  OBVIOUS
<1>0. TasksOK /\ IdleOK /\ TimesOK
  BY DEF CommInv
<1>1. /\ stuck' = TRUE /\ Trouble /\ UNCHANGED history
      /\ UNCHANGED <<rx, hwIdle, comm, ping, mission, idleLock, idleState, turnOff, arrived, restartFailed>>
  BY Zenon DEF ReceiverSticks, idleVars, history
<1>2. stuck' \in BOOLEAN
  BY <1>1, Zenon
<1>3. troubles' \in {troubles, troubles + 1} /\ troubles' <= MaxTroubles
  BY <1>0, <1>1, TroublesCounted DEF Trouble
<1>4. TasksOK'
  BY <1>0, <1>1 DEF TasksOK
<1>5. FramesOK' /\ LossesPaid' /\ Repeats'
  BY <1>1, <1>2, FramesAlone
<1>6. IdleOK'
  BY <1>0, <1>1, IdleKept
<1>7. TimesOK'
  BY <1>0, <1>1, <1>3, TimesKept
<1> QED
  BY <1>4, <1>5, <1>6, <1>7 DEF CommInv

(* Mission time only shortens what is left.                                 *)
LEMMA TickKeeps == CommInv /\ Tick => CommInv'
<1> SUFFICES ASSUME CommInv, Tick PROVE CommInv'
  OBVIOUS
<1>0. TasksOK /\ FramesOK /\ IdleOK /\ TimesOK /\ comm \in CommRecord /\ mission \in MissionRecord /\ ping \in BOOLEAN
  BY DEF CommInv, TasksOK, CommRecord, MissionRecord
<1>1. /\ turnOff' = Bounded(turnOff - 1)
      /\ comm' = [comm EXCEPT !.off = Bounded(@ - 1)] /\ mission' = [mission EXCEPT !.off = Bounded(@ - 1)]
      /\ UNCHANGED <<hardware, ping, idleLock, idleState, counters, history>>
  BY DEF Tick
<1>2. UNCHANGED <<rx, stuck, hwIdle, ping, idleLock, idleState, arrived, troubles, restartFailed>> /\ UNCHANGED history
  BY <1>1 DEF hardware, history, counters
<1>3. Latest \in Nat /\ Latest' = Latest /\ troubles' \in 0 .. MaxTroubles
  BY <1>0, <1>2, TroublesCounted DEF Latest
<1>4. turnOff \in Floor .. Latest /\ comm.off \in Floor .. Latest /\ mission.off \in Floor .. Latest
  BY <1>0 DEF TimesOK
<1>5. \A l \in Nat : \A t \in Floor .. l :
         /\ Bounded(t - 1) \in Int /\ Bounded(t - 1) \in Floor .. l /\ (t < l => Bounded(t - 1) < l)
  BY DEF Bounded, Floor
<1>6. /\ comm' \in CommRecord /\ comm'.pc = comm.pc /\ comm'.left = comm.left /\ comm'.tries = comm.tries
      /\ comm'.off = Bounded(comm.off - 1)
      /\ mission' \in MissionRecord /\ mission'.pc = mission.pc /\ mission'.shift = mission.shift
      /\ mission'.off = Bounded(mission.off - 1)
  <2>1. Bounded(comm.off - 1) \in Int /\ Bounded(mission.off - 1) \in Int
    BY <1>3, <1>4, <1>5
  <2> QED
    BY <1>0, <1>1, <2>1 DEF CommRecord, MissionRecord
<1>7. TasksOK'
  <2>1. ping' \in BOOLEAN
    BY <1>0, <1>2, Zenon
  <2>2. comm'.pc \in Busy => comm'.left >= 1 /\ comm'.left <= Len(rx')
    BY <1>0, <1>2, <1>6 DEF TasksOK
  <2>3. comm'.pc = "get" => comm'.tries >= 1
    BY <1>0, <1>6 DEF TasksOK
  <2> QED
    BY <1>6, <2>1, <2>2, <2>3, TasksKept
<1>8. FramesOK' /\ LossesPaid' /\ Repeats'
  <2>1. stuck' \in BOOLEAN
    BY <1>0, <1>2 DEF FramesOK
  <2> QED
    BY <1>2, <1>6, <2>1, FramesAlone
<1>9. IdleOK'
  BY <1>0, <1>2, <1>6, IdleKept
<1>10. TimesOK'
  <2>1. turnOff' \in Floor .. Latest /\ comm'.off \in Floor .. Latest /\ mission'.off \in Floor .. Latest
    BY <1>1, <1>3, <1>4, <1>5, <1>6
  <2>2. mission.pc = "changed" => troubles >= 1
    BY <1>0 DEF TimesOK
  <2>3. mission.pc = "changed" /\ mission.shift = 1 => turnOff' < Latest /\ comm'.off < Latest
    BY <1>0, <1>1, <1>3, <1>4, <1>5, <1>6 DEF TimesOK
  <2> QED
    BY <1>2, <1>3, <1>6, <2>1, <2>2, <2>3 DEF TimesOK
<1> QED
  BY <1>7, <1>8, <1>9, <1>10 DEF CommInv

(* A reset flushes the receiver and the idle state, or is on record as one  *)
(* that could not restart the radio.                                        *)
LEMMA ResetKeeps == CommInv /\ (ObcReset \/ EpsExpires) => CommInv'
<1> SUFFICES ASSUME CommInv, ObcReset \/ EpsExpires PROVE CommInv'
  OBVIOUS
<1>0. TasksOK /\ FramesOK /\ LossesPaid /\ Repeats /\ IdleOK /\ TimesOK
  BY DEF CommInv
<1>1. stuck' \in BOOLEAN /\ \E restarted \in BOOLEAN : Boot(restarted)
  <2>1. CASE ObcReset
    BY <1>0, <2>1 DEF ObcReset, FramesOK
  <2>2. CASE EpsExpires
    BY <2>2, Zenon DEF EpsExpires
  <2> QED
    BY <2>1, <2>2
<1>2. /\ troubles' \in {troubles, troubles + 1} /\ troubles' \in 0 .. MaxTroubles
      /\ Latest' \in Nat
  <2>1. troubles' = troubles \/ (troubles < MaxTroubles /\ troubles' = troubles + 1)
    BY Zenon DEF ObcReset, EpsExpires, Trouble
  <2>2. troubles' \in {troubles, troubles + 1} /\ troubles' \in 0 .. MaxTroubles
    BY <1>0, <2>1, TroublesCounted
  <2>3. Latest' = Longest + troubles' /\ Longest \in Nat
    BY CommConstants DEF Latest
  <2>4. \A a, b \in Nat : a + b \in Nat
    OBVIOUS
  <2>5. troubles' \in Nat
    BY <2>2, CommConstants
  <2> QED
    BY <2>2, <2>3, <2>4, <2>5, Zenon
<1>3. /\ comm' = CommStart /\ mission' = MissionStart /\ ping' = FALSE
      /\ idleLock' = "free" /\ idleState' = FALSE /\ turnOff' = Floor
      /\ UNCHANGED <<arrived, readable, handled, repeated, removeFailed, readFailures>>
      /\ \/ /\ rx' = <<>> /\ hwIdle' = FALSE /\ restartFailed' = restartFailed
            /\ flushed' = flushed \cup {f.id : f \in ToSet(rx)}
         \/ restartFailed' = TRUE /\ UNCHANGED <<rx, hwIdle, flushed>>
  BY <1>1, Zenon DEF Boot
<1>4. /\ comm' \in CommRecord /\ comm'.pc = "count" /\ comm'.off = Floor
      /\ mission' \in MissionRecord /\ mission'.pc = "determine" /\ mission'.off = Floor
  BY <1>3, StartsTyped
<1>5. "count" \notin Busy /\ "count" \notin Entering /\ "count" \notin Locked
  BY DEF Busy, Done, Entering, Locked
<1>6. TasksOK'
  <2>1. ping' \in BOOLEAN
    BY <1>3, Zenon
  <2> QED
    BY <1>4, <1>5, <2>1, TasksKept
<1>7. FramesOK'
  <2>1. CASE rx' = <<>>
    <3>1. rx' \in Seq(Frames) /\ Len(rx') = 0 /\ 1 .. Len(rx') = {} /\ 0 <= ReceiverBufferSize
      BY <2>1, CommConstants
    <3> QED
      BY <1>0, <1>1, <1>3, <3>1 DEF FramesOK
  <2>2. CASE rx' = rx
    BY <1>0, <1>1, <1>3, <2>2, FramesKept
  <2> QED
    BY <1>3, <2>1, <2>2
<1>8. LossesPaid'
  <2>1. Lost' \subseteq Lost
    <3>1. CASE /\ rx' = <<>> /\ flushed' = flushed \cup {f.id : f \in ToSet(rx)}
      BY <1>3, <3>1 DEF Lost
    <3>2. CASE UNCHANGED <<rx, flushed>>
      BY <1>3, <3>2 DEF Lost
    <3> QED
      BY <1>3, <3>1, <3>2
  <2>2. Spent \in Nat /\ Spent' = 0 /\ readFailures' = readFailures /\ readFailures \in Nat
    BY <1>0, <1>3, <1>4, SpentTyped DEF Spent, TasksOK, LossesPaid
  <2>3. Spent' \in Nat /\ readFailures' \in Nat /\ Spent' - Spent <= readFailures' - readFailures
    <3>1. \A a, b \in Nat : 0 - a <= b - b
      OBVIOUS
    <3> QED
      BY <2>2, <3>1
  <2>4. comm'.pc \in Entering => ~Unread'
    BY <1>4, <1>5
  <2> QED
    BY <1>0, <2>1, <2>2, <2>3, <2>4, LossesFewer
<1>9. Repeats'
  <2>1. CASE restartFailed' = TRUE
    BY <2>1 DEF Repeats
  <2>2. CASE rx' = <<>> /\ restartFailed' = restartFailed
    <3>1. 1 .. Len(rx') = {}
      BY <2>2
    <3> QED
      BY <1>0, <1>3, <2>2, <3>1 DEF Repeats
  <2> QED
    BY <1>3, <2>1, <2>2
<1>10. IdleOK'
  <2>1. /\ idleState' \in BOOLEAN /\ hwIdle' \in BOOLEAN /\ restartFailed' \in BOOLEAN
        /\ ~(hwIdle' /\ ~restartFailed')
    <3>1. hwIdle \in BOOLEAN /\ restartFailed \in BOOLEAN /\ idleState' \in BOOLEAN
      BY <1>0, <1>3, Zenon DEF IdleOK
    <3>2. CASE hwIdle' = FALSE /\ restartFailed' = restartFailed
      BY <3>1, <3>2, Zenon
    <3>3. CASE restartFailed' = TRUE /\ hwIdle' = hwIdle
      BY <3>1, <3>3, Zenon
    <3> QED
      BY <1>3, <3>2, <3>3, Zenon
  <2>2. /\ idleLock' \in {"free", "comm", "mission"} /\ idleLock' # "comm" /\ idleLock' # "mission"
        /\ comm'.pc \notin Locked /\ mission'.pc # "leave hw"
    BY <1>3, <1>4, <1>5
  <2> QED
    BY <2>1, <2>2, Zenon DEF IdleOK
<1>11. TimesOK'
  <2>1. Floor \in Floor .. Latest'
    BY <1>2 DEF Floor
  <2> QED
    BY <1>2, <1>3, <1>4, <2>1, Zenon DEF TimesOK
<1> QED
  BY <1>6, <1>7, <1>8, <1>9, <1>10, <1>11 DEF CommInv

(* Every step keeps the invariant.                                          *)
LEMMA CommInvKept == CommInv /\ [CommNext]_commVars => CommInv'
<1> SUFFICES ASSUME CommInv, [CommNext]_commVars PROVE CommInv'
  OBVIOUS
<1>1. CASE FrameArrives \/ ReceiverSticks \/ Tick
  BY <1>1, FrameArrivesKeeps, ReceiverSticksKeeps, TickKeeps
<1>2. CASE CommTask
  BY <1>2, GetFrameCountKeeps, GetFrameKeeps, HandleFrameKeeps, EnterIdleLockKeeps, EnterIdleHardwareKeeps,
     EnterIdleFlagKeeps, EnterIdleTimeKeeps, RemoveFrameKeeps, EndOfPollKeeps, Zenon DEF CommTask, EnterIdle
<1>3. CASE MissionLoop
  BY <1>3, MissionQuietKeeps, CorrectTimeKeeps, TimeChangedKeeps, LeaveIdleLockKeeps, LeaveIdleKeeps, Zenon
     DEF MissionLoop
<1>4. CASE ObcReset \/ EpsExpires
  BY <1>4, ResetKeeps
<1>5. CASE UNCHANGED commVars
  <2>1. UNCHANGED <<hardware, comm, mission, ping, idleVars, counters, history>>
    BY <1>5 DEF commVars
  <2>2. /\ UNCHANGED <<rx, stuck, hwIdle, comm, mission, ping, idleLock, idleState, turnOff, arrived, troubles>>
        /\ UNCHANGED <<readable, handled, repeated, removeFailed, flushed, readFailures, restartFailed>>
    BY <2>1 DEF hardware, idleVars, counters, history
  <2>3. TasksOK' /\ FramesOK' /\ Repeats' /\ IdleOK'
    BY <2>2, FramesKept, RepeatsKept, IdleKept DEF CommInv, TasksOK, FramesOK
  <2>4. LossesPaid'
    BY <2>2, LossesKept DEF CommInv, TasksOK
  <2>5. TimesOK'
    BY <2>2 DEF CommInv, TimesOK, Latest
  <2> QED
    BY <2>3, <2>4, <2>5 DEF CommInv
<1> QED
  BY <1>1, <1>2, <1>3, <1>4, <1>5 DEF CommNext

(* The invariant implies UplinkSafe.                                        *)
LEMMA CommInvSafe == CommInv => UplinkSafe
<1> SUFFICES ASSUME CommInv PROVE UplinkSafe
  OBVIOUS
<1>0. TasksOK /\ FramesOK /\ LossesPaid /\ Repeats /\ IdleOK /\ TimesOK
  BY DEF CommInv
<1>1. CommTypeOK
  <2>1. Latest \in Nat /\ Latest <= Longest + MaxTroubles
    <3>1. troubles \in Nat /\ troubles <= MaxTroubles
      BY <1>0, CommConstants DEF TimesOK
    <3> QED
      BY <3>1, CommConstants DEF Latest
  <2>2. turnOff \in Floor .. Longest + MaxTroubles
    <3>1. turnOff \in Floor .. Latest
      BY <1>0 DEF TimesOK
    <3> QED
      BY <2>1, <3>1, CommConstants DEF Floor
  <2>3. comm.left \in 0 .. ReceiverBufferSize /\ comm.tries \in 0 .. RetryCount
    BY <1>0 DEF TasksOK
  <2>4. stuck \in BOOLEAN /\ hwIdle \in BOOLEAN /\ ping \in BOOLEAN /\ idleState \in BOOLEAN
    BY <1>0, Zenon DEF TasksOK, FramesOK, IdleOK
  <2>5. rx \in Seq(Frames) /\ Len(rx) <= ReceiverBufferSize /\ idleLock \in {"free", "comm", "mission"}
    BY <1>0 DEF FramesOK, IdleOK
  <2> QED
    BY <2>2, <2>3, <2>4, <2>5, Zenon DEF CommTypeOK
<1>2. NoFrameLost
  <2>1. Spent \in Nat /\ readFailures \in Nat /\ RetryCount * Cardinality(Lost) + Spent <= readFailures
    BY <1>0, SpentTyped DEF TasksOK, LossesPaid
  <2>2. RetryCount * Cardinality(Lost) \in Nat
    BY <1>0, LostCounted, CostOfLosses
  <2>3. \A a, b, c \in Nat : a + b <= c => a <= c
    OBVIOUS
  <2>4. RetryCount * Cardinality(Lost) <= readFailures
    BY <2>1, <2>2, <2>3, Zenon
  <2> QED
    BY <2>4, Zenon DEF NoFrameLost, Lost
<1>3. RepeatedOnlyIfKept
  BY <1>0, Zenon DEF Repeats, RepeatedOnlyIfKept
<1>4. IdleOwned
  BY <1>0 DEF IdleOK, IdleOwned, Locked
<1> QED
  BY <1>1, <1>2, <1>3, <1>4 DEF UplinkSafe

(* UplinkSafe always holds: whatever fails on the bus and whenever the OBC  *)
(* is reset, no frame that can be read is dropped before it cost RetryCount *)
(* failed attempts, none is handled again without a failed removal or       *)
(* restart, and no transmitter stays on when idle that CommTask does not    *)
(* know of (drivers/comm/comm.cpp:723-829, mission/comm/comm.cpp:26-86).    *)
THEOREM UplinkIsSafe == CommSpec => []UplinkSafe
<1>1. CommSpec => []CommInv
  BY CommInitOK, CommInvKept, PTL DEF CommSpec
<1> QED
  BY <1>1, CommInvSafe, PTL
=============================================================================
