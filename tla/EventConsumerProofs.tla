------------------------- MODULE EventConsumerProofs -------------------------
(***************************************************************************)
(* Theorems about EventConsumer, for every number of processes, partitions *)
(* and records, every slice and retry limit, and every placement of        *)
(* control records and of messages that do not parse.                      *)
(*                                                                         *)
(* NothingSkipped is not inductive: what is below the end of the slice a   *)
(* handler works on is done with only together with what the handler still *)
(* holds (Covered).  Type correctness rests on the fact that a key that    *)
(* has used up its attempts keeps its partition paused (Counted), so that  *)
(* no handler starts on it.                                                *)
(***************************************************************************)
EXTENDS EventConsumer, TLAPS

\* What a handler still has to write or to set aside.
Pending(k) == IF k.job.pc = "write" THEN k.job.todo ELSE k.job.todo \cup k.job.good

\* w, d and x stand for written, dead and withdrawn.
Below(p, n, w, d) == \A o \in 1 .. n - 1 : <<p, o>> \in Hidden \cup w \cup d

Covered(k, w, d) ==
    \A o \in 1 .. k.job.upto - 1 : <<k.job.part, o>> \in Hidden \cup w \cup d \cup Pending(k)

Busy(k) == k.job.pc # "idle"

Counted(k) == k.running => \A m \in Message : k.attempts[m] = MaxRetries => m \in k.paused

Working(k, w, d, x) ==
    Busy(k) =>
      /\ Key(k) \in Message
      /\ k.attempts[Key(k)] < MaxRetries
      /\ Covered(k, w, d)
      /\ k.job.good \cap Poison = {}
      /\ k.job.pc \in {"parse", "govern"} => k.job.todo \subseteq Poison \cup x

Sound(k, w, d, x) ==
    /\ k \in Member
    /\ \A p \in Partitions : k.next[p] # 0 => Below(p, k.next[p], w, d)
    /\ Counted(k)
    /\ Working(k, w, d, x)

Consistent ==
    /\ TypeOK
    /\ \A p \in Partitions : Below(p, committed[p], written, dead)
    /\ OneOutcome
    /\ \A c \in Consumers : Sound(member[c], written, dead, withdrawn)

-----------------------------------------------------------------------------
\* Soundness of one member.

\* More facts and dead letters do no harm.
LEMMA SoundGrows ==
    ASSUME NEW k, NEW w, NEW d, NEW x, NEW w2, NEW d2, NEW x2,
           w \subseteq w2, d \subseteq d2, x \subseteq x2, Sound(k, w, d, x)
    PROVE  Sound(k, w2, d2, x2)
<1>1. ASSUME NEW p \in Partitions, k.next[p] # 0
      PROVE  Below(p, k.next[p], w2, d2)
  BY <1>1 DEF Sound, Below
<1>2. Covered(k, w, d) => Covered(k, w2, d2)
  BY DEF Covered
<1>3. Working(k, w2, d2, x2)
  BY <1>2 DEF Sound, Working
<1> QED
  BY <1>1, <1>3 DEF Sound

\* An idle member of the right type that has next offsets of its own.
LEMMA IdleWorks ==
    ASSUME NEW k, NEW w, NEW d, NEW x, ~Busy(k)
    PROVE  Working(k, w, d, x)
  BY DEF Working

LEMMA StartedType == Started \in Member /\ Started.job \in Job /\ Started.job.pc = "idle"
<1>1. PICK q \in Partitions : q = CHOOSE p \in Partitions : TRUE
  BY ConsumerAssumption
<1>2. 0 \in 0 .. MaxRetries /\ 1 \in Offset
  BY ConsumerAssumption DEF Offset
<1>3. Started.job = [pc |-> "idle", part |-> q, first |-> 1, upto |-> 1, todo |-> {}, good |-> {}]
  BY <1>1 DEF Started
<1>4. Started.job \in Job
  BY <1>2, <1>3 DEF Job
<1> QED
  BY <1>2, <1>3, <1>4 DEF Started, Member

LEMMA StartedSound ==
    ASSUME NEW w, NEW d, NEW x
    PROVE  Sound(Started, w, d, x)
<1>1. Counted(Started)
  BY ConsumerAssumption DEF Counted, Started
<1>2. Working(Started, w, d, x)
  BY IdleWorks, StartedType DEF Busy
<1>3. \A p \in Partitions : Started.next[p] = 0
  BY DEF Started
<1> QED
  BY <1>1, <1>2, <1>3, StartedType DEF Sound

\* A member whose handler returns.
LEMMA ReturnedSound ==
    ASSUME NEW k, NEW w, NEW d, NEW x,
           k \in Member, Counted(k), \A p \in Partitions : k.next[p] # 0 => Below(p, k.next[p], w, d)
    PROVE  Sound(Returned(k), w, d, x)
<1> DEFINE r == Returned(k)
<1>1. r \in Member
  BY StartedType DEF Returned, Member
<1>2. r.next = k.next /\ r.running = k.running /\ r.attempts = k.attempts /\ r.paused = k.paused
      /\ r.job = Started.job
  BY DEF Returned, Member
<1>3. Counted(r)
  BY <1>2 DEF Counted
<1>4. Working(r, w, d, x)
  BY <1>2, StartedType, IdleWorks DEF Busy
<1> QED
  BY <1>1, <1>2, <1>3, <1>4 DEF Sound

\* The catch block.  It needs an attempt left for the key of the batch.
LEMMA CaughtSound ==
    ASSUME NEW k, NEW w, NEW d, NEW x,
           k \in Member, Counted(k), Key(k) \in Message, k.attempts[Key(k)] < MaxRetries,
           \A p \in Partitions : k.next[p] # 0 => Below(p, k.next[p], w, d)
    PROVE  Sound(Caught(k), w, d, x)
<1> DEFINE n == k.attempts[Key(k)] + 1
           f == [k.attempts EXCEPT ![Key(k)] = n]
           r == [Returned(k) EXCEPT !.attempts[Key(k)] = n]
           s == [r EXCEPT !.paused = @ \cup {Key(k)}, !.ready = FALSE]
<1>1. k.attempts \in [Message -> 0 .. MaxRetries]
  BY DEF Member
<1>2. n \in 0 .. MaxRetries
  BY <1>1, ConsumerAssumption
<1>3. f \in [Message -> 0 .. MaxRetries]
  BY <1>1, <1>2
<1>4. Sound(Returned(k), w, d, x)
  BY ReturnedSound
<1>5. Returned(k) \in Member /\ Returned(k).attempts = k.attempts /\ Returned(k).job = Started.job
      /\ Returned(k).next = k.next /\ Returned(k).running = k.running /\ Returned(k).paused = k.paused
  BY <1>4 DEF Returned, Member, Sound
<1>6. r \in Member /\ r.attempts = f /\ r.job = Started.job /\ r.next = k.next
      /\ r.running = k.running /\ r.paused = k.paused
  BY <1>3, <1>5 DEF Member
<1>7. s \in Member /\ s.attempts = f /\ s.job = Started.job /\ s.next = k.next
      /\ s.running = k.running /\ s.paused = k.paused \cup {Key(k)}
  BY <1>6 DEF Member
<1>8. Working(r, w, d, x) /\ Working(s, w, d, x)
  BY <1>6, <1>7, StartedType, IdleWorks DEF Busy
<1>9. CASE ~k.running \/ n < MaxRetries
  <2>1. Counted(r)
    BY <1>1, <1>2, <1>6, <1>9 DEF Counted
  <2>2. Sound(r, w, d, x)
    BY <2>1, <1>6, <1>8 DEF Sound
  <2> QED
    BY <2>2, <1>9 DEF Caught
<1>10. CASE ~(~k.running \/ n < MaxRetries)
  <2>1. Counted(s)
    BY <1>1, <1>2, <1>7 DEF Counted
  <2>2. Sound(s, w, d, x)
    BY <2>1, <1>7, <1>8 DEF Sound
  <2> QED
    BY <2>2, <1>10 DEF Caught
<1> QED
  BY <1>9, <1>10

\* The catch block of a handler at work.
LEMMA BusyCaught ==
    ASSUME NEW k, NEW w, NEW d, NEW x, Sound(k, w, d, x), Busy(k)
    PROVE  Sound(Caught(k), w, d, x)
  BY CaughtSound DEF Sound, Working

-----------------------------------------------------------------------------
\* One step of one member.

Grows == written \subseteq written' /\ dead \subseteq dead' /\ withdrawn \subseteq withdrawn'

Members == member \in [Consumers -> Member] /\ \A c \in Consumers : Sound(member[c], written, dead, withdrawn)

LEMMA MemberStep ==
    ASSUME Consistent, Grows, NEW c \in Consumers, NEW r,
           member' = [member EXCEPT ![c] = r], Sound(r, written', dead', withdrawn')
    PROVE  Members'
<1>1. member \in [Consumers -> Member] /\ r \in Member
  BY DEF Consistent, TypeOK, Sound
<1>2. member' \in [Consumers -> Member]
  BY <1>1
<1>3. ASSUME NEW d \in Consumers
      PROVE  Sound(member'[d], written', dead', withdrawn')
  <2>1. CASE d = c
    BY <2>1, <1>1
  <2>2. CASE d # c
    <3>1. member'[d] = member[d]
      BY <2>2, <1>1
    <3>2. Sound(member[d], written, dead, withdrawn)
      BY DEF Consistent
    <3> QED
      BY <3>1, <3>2, SoundGrows DEF Grows
  <2> QED
    BY <2>1, <2>2
<1> QED
  BY <1>2, <1>3 DEF Members

LEMMA MembersStay ==
    ASSUME Consistent, Grows, member' = member
    PROVE  Members'
<1>1. ASSUME NEW d \in Consumers
      PROVE  Sound(member[d], written', dead', withdrawn')
  <2>1. Sound(member[d], written, dead, withdrawn)
    BY DEF Consistent
  <2> QED
    BY <2>1, SoundGrows DEF Grows
<1> QED
  BY <1>1 DEF Members, Consistent, TypeOK

\* The rest of the invariant.
Globals ==
    /\ owner \in [Partitions -> Consumers \cup {NoOne}]
    /\ committed \in [Partitions -> Offset]
    /\ stored \subseteq Message /\ written \subseteq Message /\ dead \subseteq Message
    /\ withdrawn \subseteq Message
    /\ outage \in BOOLEAN /\ moves \in 0 .. MaxMoves
    /\ \A p \in Partitions : Below(p, committed[p], written, dead)
    /\ OneOutcome

LEMMA Parts == Consistent <=> Globals /\ Members
  BY DEF Consistent, TypeOK, Globals, Members

LEMMA PartsNext == Consistent' <=> Globals' /\ Members'
  BY DEF Consistent, TypeOK, Globals, Members

\* A step that only changes members, or goes on with facts that grow.
LEMMA GlobalsStay ==
    ASSUME Globals, Grows, UNCHANGED Kafka, UNCHANGED <<outage, moves>>,
           stored' \subseteq Message, written' \subseteq Message, dead' \subseteq Message,
           withdrawn' \subseteq Message, OneOutcome'
    PROVE  Globals'
<1>1. \A p \in Partitions : Below(p, committed[p], written', dead')
  BY DEF Globals, Grows, Below
<1> QED
  BY <1>1 DEF Globals, Kafka

\* A member that keeps its stores.
LEMMA Quiet ==
    ASSUME UNCHANGED <<Stores, World>>
    PROVE  Grows /\ UNCHANGED <<stored, written, dead, withdrawn, outage, moves>>
  BY DEF Grows, Stores, World

LEMMA QuietStep ==
    ASSUME Consistent, UNCHANGED <<Kafka, Stores, World>>, NEW c \in Consumers, NEW r,
           member' = [member EXCEPT ![c] = r], Sound(r, written, dead, withdrawn)
    PROVE  Consistent'
<1>1. Grows /\ UNCHANGED <<stored, written, dead, withdrawn, outage, moves, Kafka>>
  BY Quiet
<1>2. Members'
  BY <1>1, MemberStep
<1>3. Globals'
  BY <1>1, Parts DEF Globals, Kafka, OneOutcome
<1> QED
  BY <1>2, <1>3, PartsNext

\* What Consistent says of one member.
LEMMA OneMember ==
    ASSUME Consistent, NEW c \in Consumers
    PROVE  /\ Sound(member[c], written, dead, withdrawn)
           /\ member[c] \in Member /\ member[c].job \in Job
           /\ member \in [Consumers -> Member]
<1>1. member \in [Consumers -> Member] /\ member[c] \in Member
  BY DEF Consistent, TypeOK
<1>2. member[c].job \in Job
  BY <1>1 DEF Member
<1> QED
  BY <1>1, <1>2 DEF Consistent

-----------------------------------------------------------------------------
\* The handler.

LEMMA FetchStep ==
    ASSUME Consistent, NEW c \in Consumers, NEW p \in Partitions, NEW to \in 1 .. Size, Fetch(c, p, to)
    PROVE  Consistent'
<1> DEFINE k == member[c]
           from == k.next[p]
           seen == Visible(p, from, to)
<1>1. PICK first \in seen, last \in seen :
        /\ \A o \in seen : first <= o
        /\ member' = [member EXCEPT ![c].job = Slice(p, seen, first, last, to)]
  BY DEF Fetch
<1> DEFINE j == Slice(p, seen, first, last, to)
           r == [k EXCEPT !.job = j]
           batch == {<<p, o>> : o \in UpTo(seen, last)}
<1>2. k \in Member /\ Sound(k, written, dead, withdrawn) /\ member \in [Consumers -> Member]
  BY OneMember
<1>3. k.running /\ from # 0 /\ from \in Offset /\ \A m \in k.paused : m[1] # p
  BY <1>2, ConsumerAssumption DEF Fetch, CanFetch, Member
<1>4. first \in 1 .. Size /\ last \in 1 .. Size /\ from <= first /\ from <= last /\ last <= to
  BY <1>3, ConsumerAssumption DEF Visible, Offset
<1>5. batch \subseteq Message
  <2>1. ASSUME NEW o \in UpTo(seen, last)
        PROVE  o \in 1 .. Size
    <3>1. o \in from .. to
      BY DEF UpTo, Visible
    <3> QED
      BY <3>1, <1>3, ConsumerAssumption DEF Offset
  <2> QED
    BY <2>1 DEF Message
<1>6. j.pc = "parse" /\ j.part = p /\ j.first = first /\ j.todo = batch \cap Rejected(p)
      /\ j.good = batch \ Rejected(p)
      /\ j.upto = (IF UpTo(seen, last) = seen THEN to ELSE last) + 1
  BY DEF Slice
<1>7. j \in Job
  <2>1. j.upto \in Offset /\ first \in Offset
    BY <1>4, <1>6, ConsumerAssumption DEF Offset
  <2> QED
    BY <1>5, <2>1 DEF Slice, Job
<1>8. r \in Member /\ r.job = j /\ r.next = k.next /\ r.attempts = k.attempts /\ r.running = k.running
      /\ r.paused = k.paused
  BY <1>2, <1>7 DEF Member
<1>9. Key(r) = <<p, first>> /\ <<p, first>> \in Message
  BY <1>4, <1>6, <1>8 DEF Key, Message
<1>10. k.attempts[<<p, first>>] < MaxRetries
  <2>1. <<p, first>> \notin k.paused
    BY <1>3
  <2>2. k.attempts[<<p, first>>] # MaxRetries
    BY <1>2, <1>3, <1>9, <2>1 DEF Sound, Counted
  <2>3. k.attempts[<<p, first>>] \in 0 .. MaxRetries
    BY <1>2, <1>9 DEF Member
  <2> QED
    BY <2>2, <2>3, ConsumerAssumption
<1>11. Covered(r, written, dead)
  <2>1. Below(p, from, written, dead)
    BY <1>2, <1>3 DEF Sound
  <2>2. ASSUME NEW o \in 1 .. j.upto - 1
        PROVE  <<p, o>> \in Hidden \cup written \cup dead \cup batch
    <3>1. CASE o < from
      BY <2>1, <3>1, <1>3 DEF Below, Offset
    <3>2. CASE ~(o < from)
      <4>1. o \in from .. to
        BY <3>2, <1>3, <1>4, <1>6, ConsumerAssumption DEF Offset
      <4>2. <<p, o>> \in Hidden \/ o \in seen
        BY <4>1 DEF Visible
      <4>3. o \in seen => o \in UpTo(seen, last)
        BY <1>4, <1>6 DEF UpTo
      <4> QED
        BY <4>2, <4>3
    <3> QED
      BY <3>1, <3>2
  <2>3. Pending(r) = batch
    BY <1>6, <1>8 DEF Pending
  <2> QED
    BY <2>2, <2>3, <1>6, <1>8 DEF Covered
<1>12. j.good \cap Poison = {} /\ j.todo \subseteq Poison \cup withdrawn
  BY <1>6 DEF Rejected
<1>13. Sound(r, written, dead, withdrawn)
  <2>1. Counted(r)
    BY <1>2, <1>8 DEF Sound, Counted
  <2>2. Working(r, written, dead, withdrawn)
    BY <1>8, <1>9, <1>10, <1>11, <1>12 DEF Working
  <2> QED
    BY <1>2, <1>8, <2>1, <2>2 DEF Sound
<1>14. member' = [member EXCEPT ![c] = r]
  BY <1>1, <1>2
<1> QED
  BY <1>13, <1>14, QuietStep DEF Fetch

LEMMA SkipStep ==
    ASSUME Consistent, NEW c \in Consumers, NEW p \in Partitions, NEW to \in 1 .. Size, Skip(c, p, to)
    PROVE  Consistent'
<1> DEFINE k == member[c]
           from == k.next[p]
           r == [k EXCEPT !.next[p] = to + 1]
<1>1. k \in Member /\ Sound(k, written, dead, withdrawn) /\ member \in [Consumers -> Member]
  BY OneMember
<1>2. from # 0 /\ from \in Offset /\ k.next \in [Partitions -> Offset \cup {0}]
      /\ k.job.pc = "idle" /\ to + 1 \in Offset
  BY <1>1, ConsumerAssumption DEF Skip, CanFetch, Idle, Member, Offset
<1>3. Below(p, to + 1, written, dead)
  <2>1. Below(p, from, written, dead)
    BY <1>1, <1>2 DEF Sound
  <2>2. ASSUME NEW o \in 1 .. to
        PROVE  <<p, o>> \in Hidden \cup written \cup dead
    <3>1. CASE o < from
      BY <2>1, <3>1, <1>2 DEF Below, Offset
    <3>2. CASE ~(o < from)
      BY <3>2, <1>2 DEF Skip, Visible, Offset
    <3> QED
      BY <3>1, <3>2
  <2> QED
    BY <2>2 DEF Below
<1>4. r \in Member /\ r.job = k.job /\ r.attempts = k.attempts /\ r.running = k.running
      /\ r.paused = k.paused /\ r.next = [k.next EXCEPT ![p] = to + 1]
  BY <1>1, <1>2 DEF Member
<1>5. Sound(r, written, dead, withdrawn)
  <2>1. Counted(r)
    BY <1>1, <1>4 DEF Sound, Counted
  <2>2. Working(r, written, dead, withdrawn)
    BY <1>2, <1>4, IdleWorks DEF Busy
  <2>3. ASSUME NEW q \in Partitions, r.next[q] # 0
        PROVE  Below(q, r.next[q], written, dead)
    BY <2>3, <1>1, <1>2, <1>3, <1>4 DEF Sound
  <2> QED
    BY <1>4, <2>1, <2>2, <2>3 DEF Sound
<1>6. member' = [member EXCEPT ![c] = r]
  BY <1>1 DEF Skip
<1>7. Grows /\ UNCHANGED <<stored, written, dead, withdrawn, outage, moves, owner>>
  BY Quiet DEF Skip
<1>8. Members'
  BY <1>5, <1>6, <1>7, MemberStep
<1>9. committed' \in [Partitions -> Offset] /\ \A q \in Partitions : Below(q, committed'[q], written, dead)
  BY <1>2, <1>3, Parts DEF Skip, Globals
<1>10. Globals'
  BY <1>7, <1>9, Parts DEF Globals, OneOutcome
<1> QED
  BY <1>8, <1>10, PartsNext

\* A handler that goes on with the same batch.
LEMMA JobSound ==
    ASSUME NEW k, NEW w, NEW d, NEW x, NEW w2, NEW d2, NEW x2,
           w \subseteq w2, d \subseteq d2, x \subseteq x2, Sound(k, w, d, x), Busy(k),
           NEW j \in Job, j.pc # "idle",
           j.part = k.job.part, j.first = k.job.first, j.upto = k.job.upto, j.good \subseteq k.job.good,
           Pending(k) \subseteq w2 \cup d2 \cup Pending([k EXCEPT !.job = j]),
           j.pc \in {"parse", "govern"} => j.todo \subseteq Poison \cup x2
    PROVE  Sound([k EXCEPT !.job = j], w2, d2, x2)
<1> DEFINE r == [k EXCEPT !.job = j]
<1>1. r \in Member /\ r.job = j /\ r.next = k.next /\ r.attempts = k.attempts /\ r.running = k.running
      /\ r.paused = k.paused
  BY DEF Sound, Member
<1>2. Sound(k, w2, d2, x2)
  BY SoundGrows
<1>3. Counted(r)
  BY <1>1, <1>2 DEF Sound, Counted
<1>4. Key(r) = Key(k)
  BY <1>1 DEF Key
<1>5. Covered(r, w2, d2)
  BY <1>1, <1>2 DEF Sound, Working, Covered
<1>6. Working(r, w2, d2, x2)
  BY <1>1, <1>2, <1>4, <1>5 DEF Sound, Working, Busy
<1> QED
  BY <1>1, <1>2, <1>3, <1>6 DEF Sound

LEMMA ProceedStep ==
    ASSUME Consistent, Grows, NEW c \in Consumers, NEW r,
           Busy(member[c]), Proceed(c, r), Sound(r, written', dead', withdrawn')
    PROVE  Members'
<1>1. Sound(member[c], written', dead', withdrawn')
  BY OneMember, SoundGrows DEF Grows
<1>2. Sound(Caught(member[c]), written', dead', withdrawn')
  BY <1>1, BusyCaught
<1>3. CASE member' = [member EXCEPT ![c] = r]
  BY <1>3, MemberStep
<1>4. CASE member' = [member EXCEPT ![c] = Caught(@)]
  <2>1. member' = [member EXCEPT ![c] = Caught(member[c])]
    BY <1>4
  <2> QED
    BY <2>1, <1>2, MemberStep
<1> QED
  BY <1>3, <1>4 DEF Proceed

\* The job of k without the message m.
Without(k, m) == [k.job EXCEPT !.todo = @ \ {m}]

LEMMA WithoutMessage ==
    ASSUME NEW k \in Member, k.job \in Job, NEW m
    PROVE  /\ [k EXCEPT !.job.todo = @ \ {m}] = [k EXCEPT !.job = Without(k, m)]
           /\ Without(k, m) \in Job
           /\ Without(k, m).pc = k.job.pc /\ Without(k, m).part = k.job.part
           /\ Without(k, m).first = k.job.first /\ Without(k, m).upto = k.job.upto
           /\ Without(k, m).good = k.job.good /\ Without(k, m).todo = k.job.todo \ {m}
           /\ Pending(k) \subseteq Pending([k EXCEPT !.job = Without(k, m)]) \cup {m}
<1> DEFINE j == Without(k, m)
           r == [k EXCEPT !.job = j]
<1>1. j \in Job /\ j.pc = k.job.pc /\ j.part = k.job.part /\ j.first = k.job.first
      /\ j.upto = k.job.upto /\ j.good = k.job.good /\ j.todo = k.job.todo \ {m}
  BY DEF Without, Job
<1>2. [k EXCEPT !.job.todo = @ \ {m}] = r
  BY DEF Without
<1>3. r.job = j
  BY DEF Member
<1> QED
  BY <1>1, <1>2, <1>3 DEF Pending

LEMMA DeadLetterStep ==
    ASSUME Consistent, NEW c \in Consumers, DeadLetter(c)
    PROVE  Consistent'
<1> DEFINE k == member[c]
<1>1. PICK m \in Todo(c) :
        dead' = dead \cup {m} /\ Proceed(c, [k EXCEPT !.job.todo = @ \ {m}])
  BY DEF DeadLetter
<1> DEFINE j == Without(k, m)
           r == [k EXCEPT !.job = j]
<1>2. k \in Member /\ k.job \in Job /\ Sound(k, written, dead, withdrawn) /\ m \in k.job.todo
  BY OneMember DEF Todo
<1>3. Busy(k) /\ k.job.pc \in {"parse", "govern"}
  BY DEF DeadLetter, At, Busy
<1>4. UNCHANGED <<stored, written, withdrawn, outage, moves, Kafka>>
  BY DEF DeadLetter, World, Kafka
<1>5. m \in Poison \cup withdrawn /\ m \in Message
  BY <1>2, <1>3 DEF Sound, Working, Job
<1>6. Grows
  BY <1>1, <1>4 DEF Grows
<1>7. Sound(r, written', dead', withdrawn')
  <2>1. j.todo \subseteq Poison \cup withdrawn
    <3>1. k.job.todo \subseteq Poison \cup withdrawn
      BY <1>2, <1>3 DEF Sound, Working
    <3>2. j.todo = k.job.todo \ {m}
      BY <1>2, WithoutMessage
    <3> QED
      BY <3>1, <3>2
  <2>2. Pending(k) \subseteq written' \cup dead' \cup Pending(r)
    BY <1>1, <1>2, WithoutMessage
  <2>3. /\ j \in Job /\ j.pc # "idle" /\ j.part = k.job.part /\ j.first = k.job.first
        /\ j.upto = k.job.upto /\ j.good \subseteq k.job.good
    BY <1>2, <1>3, WithoutMessage
  <2>4. written \subseteq written' /\ dead \subseteq dead' /\ withdrawn \subseteq withdrawn'
    BY <1>6 DEF Grows
  <2>5. j.todo \subseteq Poison \cup withdrawn'
    BY <1>4, <2>1
  <2> QED
    BY <1>2, <1>3, <2>2, <2>3, <2>4, <2>5, JobSound
<1>8. Members'
  BY <1>1, <1>2, <1>3, <1>6, <1>7, WithoutMessage, ProceedStep
<1>9. Globals'
  <2>1. OneOutcome'
    BY <1>1, <1>4, <1>5, Parts DEF Globals, OneOutcome
  <2> QED
    BY <1>1, <1>4, <1>5, <1>6, <2>1, Parts, GlobalsStay DEF Globals
<1> QED
  BY <1>8, <1>9, PartsNext

LEMMA ReadRegistriesStep ==
    ASSUME Consistent, NEW c \in Consumers, ReadRegistries(c)
    PROVE  Consistent'
<1> DEFINE k == member[c]
           j == [k.job EXCEPT !.pc = "govern", !.todo = k.job.good \cap withdrawn,
                              !.good = k.job.good \ withdrawn]
           r == [k EXCEPT !.job = j]
<1>1. k \in Member /\ k.job \in Job /\ Sound(k, written, dead, withdrawn) /\ member \in [Consumers -> Member]
  BY OneMember
<1>2. k.job.pc = "parse" /\ k.job.todo = {} /\ Busy(k)
  BY DEF ReadRegistries, At, Todo, Busy
<1>3. member' = [member EXCEPT ![c] = r]
  BY <1>1 DEF ReadRegistries
<1>4. j \in Job /\ j.pc = "govern" /\ j.part = k.job.part /\ j.first = k.job.first /\ j.upto = k.job.upto
      /\ j.todo = k.job.good \cap withdrawn /\ j.good = k.job.good \ withdrawn
  BY <1>1 DEF Job
<1>5. r.job = j
  BY <1>1 DEF Member
<1>6. Pending(k) \subseteq Pending(r)
  BY <1>2, <1>4, <1>5 DEF Pending
<1>7. Sound(r, written, dead, withdrawn)
  BY <1>1, <1>2, <1>4, <1>6, JobSound
<1> QED
  BY <1>3, <1>7, QuietStep DEF ReadRegistries

LEMMA InsertStep ==
    ASSUME Consistent, NEW c \in Consumers, Insert(c)
    PROVE  Consistent'
<1> DEFINE k == member[c]
           j == [k.job EXCEPT !.pc = "write", !.todo = k.job.good]
           r == [k EXCEPT !.job = j]
<1>1. k \in Member /\ k.job \in Job /\ Sound(k, written, dead, withdrawn)
  BY OneMember
<1>2. k.job.pc = "govern" /\ k.job.todo = {} /\ Busy(k)
  BY DEF Insert, At, Todo, Busy
<1>3. stored' = stored \cup k.job.good /\ UNCHANGED <<written, dead, withdrawn, outage, moves, Kafka>>
  BY DEF Insert, World, Kafka
<1>4. Proceed(c, r)
  BY DEF Insert
<1>5. j \in Job /\ j.pc = "write" /\ j.part = k.job.part /\ j.first = k.job.first /\ j.upto = k.job.upto
      /\ j.todo = k.job.good /\ j.good = k.job.good
  BY <1>1 DEF Job
<1>6. r.job = j
  BY <1>1 DEF Member
<1>7. Pending(k) \subseteq Pending(r)
  BY <1>2, <1>5, <1>6 DEF Pending
<1>8. Sound(r, written, dead, withdrawn)
  BY <1>1, <1>2, <1>5, <1>7, JobSound
<1>9. Grows
  BY <1>3 DEF Grows
<1>10. Members'
  BY <1>2, <1>3, <1>4, <1>8, <1>9, ProceedStep
<1>11. k.job.good \cap Poison = {} /\ k.job.good \subseteq Message
  BY <1>1, <1>2 DEF Sound, Working, Job
<1>12. Globals'
  BY <1>3, <1>9, <1>11, Parts, GlobalsStay DEF Globals, OneOutcome
<1> QED
  BY <1>10, <1>12, PartsNext

LEMMA ProjectStep ==
    ASSUME Consistent, NEW c \in Consumers, Project(c)
    PROVE  Consistent'
<1> DEFINE k == member[c]
           j == [k.job EXCEPT !.pc = "write"]
           r == [k EXCEPT !.job = j]
<1>1. k \in Member /\ k.job \in Job /\ Sound(k, written, dead, withdrawn)
  BY OneMember
<1>2. k.job.pc = "parse" /\ k.job.todo = {} /\ Busy(k)
  BY DEF Project, At, Todo, Busy
<1>3. stored' = stored \cup k.job.good /\ written' = written \cup k.job.good
      /\ UNCHANGED <<dead, withdrawn, outage, moves, Kafka>>
  BY DEF Project, World, Kafka
<1>4. Proceed(c, r)
  BY DEF Project
<1>5. j \in Job /\ j.pc = "write" /\ j.part = k.job.part /\ j.first = k.job.first /\ j.upto = k.job.upto
      /\ j.todo = {} /\ j.good = k.job.good
  BY <1>1, <1>2 DEF Job
<1>6. Pending(k) \subseteq written'
  BY <1>2, <1>3 DEF Pending
<1>7. written \subseteq written'
  BY <1>3
<1>8. Sound(r, written', dead, withdrawn)
  BY <1>1, <1>2, <1>5, <1>6, <1>7, JobSound
<1>9. Grows
  BY <1>3 DEF Grows
<1>10. Members'
  BY <1>2, <1>3, <1>4, <1>8, <1>9, ProceedStep
<1>11. k.job.good \cap Poison = {} /\ k.job.good \subseteq Message
  BY <1>1, <1>2 DEF Sound, Working, Job
<1>12. Globals'
  BY <1>3, <1>9, <1>11, Parts, GlobalsStay DEF Globals, OneOutcome
<1> QED
  BY <1>10, <1>12, PartsNext

LEMMA WriteStep ==
    ASSUME Consistent, NEW c \in Consumers, Write(c)
    PROVE  Consistent'
<1> DEFINE k == member[c]
<1>1. PICK m \in Todo(c) :
        written' = written \cup {m} /\ Proceed(c, [k EXCEPT !.job.todo = @ \ {m}])
  BY DEF Write
<1> DEFINE j == Without(k, m)
           r == [k EXCEPT !.job = j]
<1>2. k \in Member /\ k.job \in Job /\ Sound(k, written, dead, withdrawn) /\ m \in k.job.todo
  BY OneMember DEF Todo
<1>3. Busy(k) /\ k.job.pc = "write"
  BY DEF Write, At, Busy
<1>4. UNCHANGED <<stored, dead, withdrawn, outage, moves, Kafka>>
  BY DEF Write, World, Kafka
<1>5. m \in Message
  BY <1>2 DEF Job
<1>6. Grows
  BY <1>1, <1>4 DEF Grows
<1>7. Sound(r, written', dead', withdrawn')
  <2>1. Pending(k) \subseteq written' \cup dead' \cup Pending(r)
    BY <1>1, <1>2, WithoutMessage
  <2>2. /\ j \in Job /\ j.pc = "write" /\ j.part = k.job.part /\ j.first = k.job.first
        /\ j.upto = k.job.upto /\ j.good \subseteq k.job.good
    BY <1>2, <1>3, WithoutMessage
  <2>3. written \subseteq written' /\ dead \subseteq dead' /\ withdrawn \subseteq withdrawn'
    BY <1>6 DEF Grows
  <2> QED
    BY <1>2, <1>3, <2>1, <2>2, <2>3, JobSound
<1>8. Members'
  BY <1>1, <1>2, <1>3, <1>6, <1>7, WithoutMessage, ProceedStep
<1>9. Globals'
  BY <1>1, <1>4, <1>5, <1>6, Parts, GlobalsStay DEF Globals, OneOutcome
<1> QED
  BY <1>8, <1>9, PartsNext

LEMMA FailStep ==
    ASSUME Consistent, NEW c \in Consumers, Fail(c)
    PROVE  Consistent'
<1>1. Sound(Caught(member[c]), written, dead, withdrawn)
  BY OneMember, BusyCaught DEF Fail, Idle, Busy
<1>2. member' = [member EXCEPT ![c] = Caught(member[c])]
  BY DEF Fail
<1> QED
  BY <1>1, <1>2, QuietStep DEF Fail

-----------------------------------------------------------------------------
\* Committing.

\* What a handler that has written everything may resolve.
LEMMA ResolvedSound ==
    ASSUME NEW k, NEW w, NEW d, NEW x, Sound(k, w, d, x), k.job.pc = "write", k.job.todo = {},
           k.job \in Job
    PROVE  LET r == Resolved(k)
           IN  /\ Sound(r, w, d, x)
               /\ r.job = k.job /\ r.next[k.job.part] = k.job.upto
               /\ Below(k.job.part, k.job.upto, w, d) /\ k.job.upto \in Offset
               /\ k.job.part \in Partitions
<1> DEFINE r == Resolved(k)
           q == k.job.part
           n == k.job.upto
<1>1. q \in Partitions /\ n \in Offset /\ k \in Member
  BY DEF Sound, Job
<1>2. Busy(k) /\ Pending(k) = {}
  BY DEF Busy, Pending
<1>3. Below(q, n, w, d)
  BY <1>2 DEF Sound, Working, Covered, Below
<1>4. k.next \in [Partitions -> Offset \cup {0}]
  BY <1>1 DEF Member
<1>5. r \in Member /\ r.job = k.job /\ r.attempts = k.attempts /\ r.running = k.running
      /\ r.paused = k.paused /\ r.next = [k.next EXCEPT ![q] = n]
  BY <1>1, <1>4 DEF Resolved, Member
<1>6. ASSUME NEW p \in Partitions, r.next[p] # 0
      PROVE  Below(p, r.next[p], w, d)
  BY <1>6, <1>1, <1>3, <1>4, <1>5 DEF Sound
<1>7. Counted(r)
  BY <1>5 DEF Sound, Counted
<1>8. Key(r) = Key(k) /\ Pending(r) = Pending(k)
  BY <1>5 DEF Key, Pending
<1>9. Working(r, w, d, x)
  BY <1>5, <1>8 DEF Sound, Working, Covered, Busy
<1> QED
  BY <1>1, <1>3, <1>4, <1>5, <1>6, <1>7, <1>9 DEF Sound

\* Forgetting the attempts of the batch.
LEMMA ForgottenSound ==
    ASSUME NEW k, NEW w, NEW d, NEW x, Sound(k, w, d, x), Busy(k)
    PROVE  Sound(Forgotten(k), w, d, x) /\ Busy(Forgotten(k))
<1>1. CASE k.job.part \in Objects
  BY <1>1 DEF Forgotten
<1>2. CASE k.job.part \notin Objects
  <2> DEFINE f == [k.attempts EXCEPT ![Key(k)] = 0]
             r == [k EXCEPT !.attempts[Key(k)] = 0]
  <2>1. k \in Member /\ Key(k) \in Message /\ k.attempts \in [Message -> 0 .. MaxRetries]
        /\ 0 \in 0 .. MaxRetries /\ MaxRetries # 0
    BY ConsumerAssumption DEF Sound, Working, Member
  <2>2. r \in Member /\ r.job = k.job /\ r.attempts = f /\ r.running = k.running
        /\ r.paused = k.paused /\ r.next = k.next
    BY <2>1 DEF Member
  <2>3. f[Key(k)] = 0 /\ \A m \in Message : m # Key(k) => f[m] = k.attempts[m]
    BY <2>1
  <2>4. Counted(r)
    BY <2>1, <2>2, <2>3 DEF Sound, Counted
  <2>5. Key(r) = Key(k) /\ Pending(r) = Pending(k)
    BY <2>2 DEF Key, Pending
  <2>6. r.attempts[Key(k)] < MaxRetries
    BY <2>2, <2>3, ConsumerAssumption
  <2>7. Working(r, w, d, x)
    BY <2>2, <2>5, <2>6 DEF Sound, Working, Covered, Busy
  <2>8. Sound(r, w, d, x)
    BY <2>2, <2>4, <2>7 DEF Sound
  <2> QED
    BY <1>2, <2>2, <2>8 DEF Forgotten, Busy
<1> QED
  BY <1>1, <1>2

LEMMA FinishStep ==
    ASSUME Consistent, NEW c \in Consumers, Finish(c)
    PROVE  Consistent'
<1> DEFINE k == member[c]
           r == Resolved(k)
           q == r.job.part
           f == Forgotten(r)
<1>1. k.job \in Job /\ Sound(k, written, dead, withdrawn) /\ k.job.pc = "write" /\ k.job.todo = {}
  BY OneMember DEF Finish, At, Todo
<1>2. /\ Sound(r, written, dead, withdrawn) /\ r.job = k.job /\ r.next[q] = k.job.upto
      /\ Below(q, k.job.upto, written, dead) /\ k.job.upto \in Offset /\ q \in Partitions
  BY <1>1, ResolvedSound
<1>3. Busy(r)
  BY <1>1, <1>2 DEF Busy
<1>4. Sound(f, written, dead, withdrawn) /\ Busy(f)
  BY <1>2, <1>3, ForgottenSound
<1>5. Sound(Returned(f), written, dead, withdrawn)
  BY <1>4, ReturnedSound DEF Sound
<1>6. Sound(Caught(r), written, dead, withdrawn) /\ Sound(Caught(f), written, dead, withdrawn)
  BY <1>2, <1>3, <1>4, BusyCaught
<1>7. Grows /\ UNCHANGED <<stored, written, dead, withdrawn, outage, moves, owner>>
  BY Quiet DEF Finish
<1>8. PICK s \in {Caught(r), Caught(f), Returned(f)} : member' = [member EXCEPT ![c] = s]
  BY DEF Finish
<1>9. Sound(s, written', dead', withdrawn')
  BY <1>5, <1>6, <1>7
<1>10. Members'
  BY <1>7, <1>8, <1>9, MemberStep
<1>11. committed' = committed \/ committed' = [committed EXCEPT ![q] = k.job.upto]
  BY <1>2 DEF Finish
<1>12. committed' \in [Partitions -> Offset] /\ \A p \in Partitions : Below(p, committed'[p], written, dead)
  BY <1>2, <1>11, Parts DEF Globals
<1>13. Globals'
  BY <1>7, <1>12, Parts DEF Globals, OneOutcome
<1> QED
  BY <1>10, <1>13, PartsNext

LEMMA FinishUncommittedStep ==
    ASSUME Consistent, NEW c \in Consumers, FinishUncommitted(c)
    PROVE  Consistent'
<1> DEFINE k == member[c]
           r == Resolved(k)
<1>1. k.job \in Job /\ Sound(k, written, dead, withdrawn) /\ k.job.pc = "write" /\ k.job.todo = {}
  BY OneMember DEF FinishUncommitted, At, Todo
<1>2. Sound(r, written, dead, withdrawn) /\ r.job = k.job
  BY <1>1, ResolvedSound
<1>3. Busy(r)
  BY <1>1, <1>2 DEF Busy
<1>4. Sound(Caught(r), written, dead, withdrawn)
  BY <1>2, <1>3, BusyCaught
<1>5. member' = [member EXCEPT ![c] = Caught(r)]
  BY DEF FinishUncommitted
<1> QED
  BY <1>4, <1>5, QuietStep DEF FinishUncommitted

LEMMA AutoCommitStep ==
    ASSUME Consistent, NEW c \in Consumers, NEW p \in Partitions, AutoCommit(c, p)
    PROVE  Consistent'
<1> DEFINE n == member[c].next[p]
<1>1. member[c] \in Member /\ Sound(member[c], written, dead, withdrawn)
  BY OneMember
<1>2. n # 0 /\ n \in Offset
  <2>1. n \in Offset \cup {0}
    BY <1>1 DEF Member
  <2>2. committed[p] \in Nat \ {0} /\ n > committed[p]
    BY ConsumerAssumption DEF AutoCommit, Consistent, TypeOK, Offset
  <2> QED
    BY <2>1, <2>2
<1>3. Below(p, n, written, dead)
  BY <1>1, <1>2 DEF Sound
<1>4. Grows /\ member' = member /\ committed' = [committed EXCEPT ![p] = n]
      /\ UNCHANGED <<stored, written, dead, withdrawn, outage, moves, owner>>
  BY Quiet DEF AutoCommit
<1>5. Members'
  BY <1>4, MembersStay
<1>6. committed' \in [Partitions -> Offset] /\ \A q \in Partitions : Below(q, committed'[q], written, dead)
  BY <1>2, <1>3, <1>4, Parts DEF Globals
<1>7. Globals'
  BY <1>4, <1>6, Parts DEF Globals, OneOutcome
<1> QED
  BY <1>5, <1>7, PartsNext

LEMMA ResumeStep ==
    ASSUME Consistent, NEW c \in Consumers, NEW key \in Message, Resume(c, key)
    PROVE  Consistent'
<1> DEFINE k == member[c]
           f == [k.attempts EXCEPT ![key] = 0]
           r == [k EXCEPT !.paused = @ \ {key}, !.attempts[key] = 0, !.ready = TRUE]
<1>1. k \in Member /\ Sound(k, written, dead, withdrawn) /\ member \in [Consumers -> Member]
  BY OneMember
<1>2. k.attempts \in [Message -> 0 .. MaxRetries] /\ k.paused \subseteq Message
      /\ 0 \in 0 .. MaxRetries /\ MaxRetries # 0 /\ 0 < MaxRetries
  BY <1>1, ConsumerAssumption DEF Member
<1>3. r \in Member /\ r.job = k.job /\ r.attempts = f /\ r.running = k.running
      /\ r.paused = k.paused \ {key} /\ r.next = k.next
  BY <1>1, <1>2 DEF Member
<1>4. f[key] = 0 /\ \A m \in Message : m # key => f[m] = k.attempts[m]
  BY <1>2
<1>5. Counted(r)
  BY <1>1, <1>2, <1>3, <1>4 DEF Sound, Counted
<1>6. Key(r) = Key(k) /\ Pending(r) = Pending(k)
  BY <1>3 DEF Key, Pending
<1>7. Busy(k) => r.attempts[Key(k)] < MaxRetries
  <2>1. CASE Key(k) = key
    BY <2>1, <1>2, <1>3, <1>4
  <2>2. CASE Key(k) # key
    BY <2>2, <1>1, <1>3, <1>4 DEF Sound, Working
  <2> QED
    BY <2>1, <2>2
<1>8. Working(r, written, dead, withdrawn)
  BY <1>1, <1>3, <1>6, <1>7 DEF Sound, Working, Covered, Busy
<1>9. Sound(r, written, dead, withdrawn)
  BY <1>1, <1>3, <1>5, <1>8 DEF Sound
<1>10. member' = [member EXCEPT ![c] = r]
  BY <1>1 DEF Resume
<1> QED
  BY <1>9, <1>10, QuietStep DEF Resume

-----------------------------------------------------------------------------
\* The group.

\* A member that goes on from another offset.
LEMMA NextSound ==
    ASSUME NEW k, NEW w, NEW d, NEW x, Sound(k, w, d, x), k.job.pc = "idle",
           NEW f \in [Partitions -> Offset \cup {0}],
           \A p \in Partitions : f[p] # 0 => Below(p, f[p], w, d)
    PROVE  Sound([k EXCEPT !.next = f], w, d, x)
<1> DEFINE r == [k EXCEPT !.next = f]
<1>1. r \in Member /\ r.job = k.job /\ r.attempts = k.attempts /\ r.running = k.running
      /\ r.paused = k.paused /\ r.next = f
  BY DEF Sound, Member
<1>2. Counted(r)
  BY <1>1 DEF Sound, Counted
<1>3. Working(r, w, d, x)
  BY <1>1, IdleWorks DEF Busy
<1> QED
  BY <1>1, <1>2, <1>3 DEF Sound

LEMMA AssignStep ==
    ASSUME Consistent, NEW c \in Consumers, NEW p \in Partitions, Assign(c, p)
    PROVE  Consistent'
<1> DEFINE k == member[c]
           f == [k.next EXCEPT ![p] = committed[p]]
           r == [k EXCEPT !.next = f]
<1>1. k \in Member /\ Sound(k, written, dead, withdrawn) /\ member \in [Consumers -> Member]
  BY OneMember
<1>2. Globals
  BY Parts
<1>3. f \in [Partitions -> Offset \cup {0}] /\ k.next \in [Partitions -> Offset \cup {0}]
  BY <1>1, <1>2 DEF Member, Globals
<1>4. \A q \in Partitions : f[q] # 0 => Below(q, f[q], written, dead)
  BY <1>1, <1>2, <1>3 DEF Sound, Globals
<1>5. Sound(r, written, dead, withdrawn)
  BY <1>1, <1>3, <1>4, NextSound DEF Assign, Idle
<1>6. member' = [member EXCEPT ![c] = r]
  BY <1>1 DEF Assign
<1>7. Grows /\ UNCHANGED <<stored, written, dead, withdrawn, outage, committed>>
  BY DEF Assign, Stores, Grows
<1>8. Members'
  BY <1>5, <1>6, <1>7, MemberStep
<1>9. owner' \in [Partitions -> Consumers \cup {NoOne}]
  BY <1>2 DEF Assign, Globals
<1>10. moves' \in 0 .. MaxMoves
  BY <1>2, ConsumerAssumption DEF Assign, Globals
<1>11. Globals'
  BY <1>2, <1>7, <1>9, <1>10 DEF Globals, OneOutcome
<1> QED
  BY <1>8, <1>11, PartsNext

LEMMA RejoinStep ==
    ASSUME Consistent, NEW c \in Consumers, Rejoin(c)
    PROVE  Consistent'
<1> DEFINE k == member[c]
           f == [p \in Partitions |-> IF owner[p] = c THEN committed[p] ELSE 0]
           r == [k EXCEPT !.next = f]
<1>1. Sound(k, written, dead, withdrawn) /\ Globals
  BY OneMember, Parts
<1>2. f \in [Partitions -> Offset \cup {0}]
  BY <1>1 DEF Globals
<1>3. \A q \in Partitions : f[q] # 0 => Below(q, f[q], written, dead)
  BY <1>1 DEF Globals
<1>4. Sound(r, written, dead, withdrawn)
  BY <1>1, <1>2, <1>3, NextSound DEF Rejoin, Idle
<1>5. member' = [member EXCEPT ![c] = r]
  BY OneMember DEF Rejoin
<1> QED
  BY <1>4, <1>5, QuietStep DEF Rejoin

LEMMA StopStep ==
    ASSUME Consistent, NEW c \in Consumers, Stop(c)
    PROVE  Consistent'
<1> DEFINE k == member[c]
           r == [k EXCEPT !.running = FALSE, !.ready = FALSE]
<1>1. k \in Member /\ Sound(k, written, dead, withdrawn) /\ member \in [Consumers -> Member]
  BY OneMember
<1>2. r \in Member /\ r.job = k.job /\ r.attempts = k.attempts /\ r.running = FALSE
      /\ r.paused = k.paused /\ r.next = k.next
  BY <1>1 DEF Member
<1>3. Counted(r)
  BY <1>2 DEF Counted
<1>4. Key(r) = Key(k) /\ Pending(r) = Pending(k)
  BY <1>2 DEF Key, Pending
<1>5. Working(r, written, dead, withdrawn)
  BY <1>1, <1>2, <1>4 DEF Sound, Working, Covered, Busy
<1>6. Sound(r, written, dead, withdrawn)
  BY <1>1, <1>2, <1>3, <1>5 DEF Sound
<1>7. member' = [member EXCEPT ![c] = r]
  BY <1>1 DEF Stop
<1>8. Grows /\ UNCHANGED <<stored, written, dead, withdrawn, outage, owner, committed>>
  BY DEF Stop, Stores, Kafka, Grows
<1>9. Members'
  BY <1>6, <1>7, <1>8, MemberStep
<1>10. moves' \in 0 .. MaxMoves
  BY Parts, ConsumerAssumption DEF Stop, Globals
<1>11. Globals'
  BY <1>8, <1>10, Parts DEF Globals, OneOutcome
<1> QED
  BY <1>9, <1>11, PartsNext

LEMMA RestartStep ==
    ASSUME Consistent, NEW c \in Consumers, Restart(c)
    PROVE  Consistent'
<1>1. Sound(Started, written, dead, withdrawn)
  BY StartedSound
<1>2. Grows /\ UNCHANGED <<stored, written, dead, withdrawn, outage, committed>>
  BY DEF Restart, Stores, Grows
<1>3. member' = [member EXCEPT ![c] = Started]
  BY DEF Restart
<1>4. Members'
  BY <1>1, <1>2, <1>3, MemberStep
<1>5. owner' \in [Partitions -> Consumers \cup {NoOne}]
  BY Parts DEF Restart, Globals
<1>6. moves' \in 0 .. MaxMoves
  BY Parts, ConsumerAssumption DEF Restart, Globals
<1>7. Globals'
  BY <1>2, <1>5, <1>6, Parts DEF Globals, OneOutcome
<1> QED
  BY <1>4, <1>7, PartsNext

LEMMA WithdrawStep ==
    ASSUME Consistent, NEW m \in Message, Withdraw(m)
    PROVE  Consistent'
<1>1. Grows /\ withdrawn' = withdrawn \cup {m}
      /\ UNCHANGED <<stored, written, dead, outage, member, owner, committed>>
  BY DEF Withdraw, Stores, Kafka, Grows
<1>2. Members'
  BY <1>1, MembersStay
<1>3. moves' \in 0 .. MaxMoves
  BY Parts, ConsumerAssumption DEF Withdraw, Globals
<1>4. Globals'
  BY <1>1, <1>3, Parts DEF Globals, OneOutcome
<1> QED
  BY <1>2, <1>4, PartsNext

LEMMA OutageStep ==
    ASSUME Consistent, Outage
    PROVE  Consistent'
<1>1. Grows /\ outage' \in BOOLEAN
      /\ UNCHANGED <<stored, written, dead, withdrawn, moves, member, owner, committed>>
  BY DEF Outage, Stores, Kafka, Grows
<1>2. Members'
  BY <1>1, MembersStay
<1>3. Globals'
  BY <1>1, Parts DEF Globals, OneOutcome
<1> QED
  BY <1>2, <1>3, PartsNext

LEMMA StutterStep ==
    ASSUME Consistent, UNCHANGED vars
    PROVE  Consistent'
<1>1. Grows /\ UNCHANGED <<stored, written, dead, withdrawn, outage, moves, member, owner, committed>>
  BY DEF vars, Grows
<1>2. Members'
  BY <1>1, MembersStay
<1>3. Globals'
  BY <1>1, Parts DEF Globals, OneOutcome
<1> QED
  BY <1>2, <1>3, PartsNext

-----------------------------------------------------------------------------
LEMMA InitConsistent == Init => Consistent
<1> SUFFICES ASSUME Init PROVE Consistent
  OBVIOUS
<1>1. Members
  BY StartedSound, StartedType DEF Init, Members
<1>2. Globals
  <2>1. \A p \in Partitions : committed[p] = 1
    BY DEF Init
  <2>2. \A p \in Partitions : Below(p, committed[p], written, dead)
    BY <2>1 DEF Below
  <2>3. committed \in [Partitions -> Offset]
    BY ConsumerAssumption DEF Init, Offset
  <2>4. moves \in 0 .. MaxMoves
    BY ConsumerAssumption DEF Init
  <2> QED
    BY <2>2, <2>3, <2>4 DEF Init, Globals, OneOutcome
<1> QED
  BY <1>1, <1>2, Parts

LEMMA NextConsistent ==
    ASSUME Consistent, [Next]_vars
    PROVE  Consistent'
<1>1. ASSUME NEW c \in Consumers, Step(c)
      PROVE  Consistent'
  BY <1>1, FetchStep, SkipStep, DeadLetterStep, ReadRegistriesStep, InsertStep, ProjectStep,
     WriteStep, FinishStep DEF Step
<1>2. ASSUME NEW c \in Consumers,
             Fail(c) \/ FinishUncommitted(c) \/ Rejoin(c) \/ Stop(c) \/ Restart(c)
      PROVE  Consistent'
  BY <1>2, FailStep, FinishUncommittedStep, RejoinStep, StopStep, RestartStep
<1>3. ASSUME NEW c \in Consumers, NEW p \in Partitions, AutoCommit(c, p) \/ Assign(c, p)
      PROVE  Consistent'
  BY <1>3, AutoCommitStep, AssignStep
<1>4. ASSUME NEW c \in Consumers, NEW key \in Message, Resume(c, key)
      PROVE  Consistent'
  BY <1>4, ResumeStep
<1>5. ASSUME NEW m \in Message, Withdraw(m)
      PROVE  Consistent'
  BY <1>5, WithdrawStep
<1>6. CASE Outage
  BY <1>6, OutageStep
<1>7. CASE UNCHANGED vars
  BY <1>7, StutterStep
<1> QED
  BY <1>1, <1>2, <1>3, <1>4, <1>5, <1>6, <1>7 DEF Next

\* Consistent is an invariant of the consumer.
LEMMA AlwaysConsistent == Spec => []Consistent
  BY InitConsistent, NextConsistent, PTL DEF Spec

LEMMA ConsistentMeans == Consistent => TypeOK /\ NothingSkipped /\ OneOutcome
  BY DEF Consistent, Sound, Below, NothingSkipped, Done

(***************************************************************************)
(* The types of the group's state; in particular a batch is never tried    *)
(* more often than MaxRetries before its partition pauses.                 *)
(***************************************************************************)
THEOREM ConsumerTypes == Spec => []TypeOK
  BY AlwaysConsistent, ConsistentMeans, PTL

(***************************************************************************)
(* No offset of the group skips a message that is neither written nor in   *)
(* the dead letter topic, whatever fails, and whoever works on it.         *)
(***************************************************************************)
THEOREM ConsumerSkipsNothing == Spec => []NothingSkipped
  BY AlwaysConsistent, ConsistentMeans, PTL

(***************************************************************************)
(* What does not parse is never stored, and what is admitted throughout is *)
(* never set aside.                                                        *)
(***************************************************************************)
THEOREM ConsumerOutcome == Spec => []OneOutcome
  BY AlwaysConsistent, ConsistentMeans, PTL


-----------------------------------------------------------------------------
(***************************************************************************)
(* The group implements EventDelivery.  What its steps need beyond         *)
(* Consistent: a handler works on delivered messages only, writes about    *)
(* messages whose facts are stored, and goes forward (Ahead); whoever has  *)
(* a partition is never behind the offset of the group (OwnerAhead), also  *)
(* after rebalances during which others went on.                           *)
(***************************************************************************)
Ahead(k, s) ==
    Busy(k) =>
      /\ k.job.todo \cup k.job.good \subseteq Message \ Hidden
      /\ k.job.pc = "write" => k.job.todo \subseteq s
      /\ k.next[k.job.part] <= k.job.upto

AllAhead == \A c \in Consumers : Ahead(member[c], stored)

OwnerAhead == \A p \in Partitions : \A c \in Consumers : owner[p] = c => committed[p] <= member[c].next[p]

\* The offset of the group moves forward.
Forward ==
    \/ committed' = committed
    \/ \E p \in Partitions : \E n : committed[p] <= n /\ committed' = [committed EXCEPT ![p] = n]

\* A member in its catch block, or back from its handler, keeps its offsets.
LEMMA CaughtKeeps ==
    ASSUME NEW k \in Member
    PROVE  /\ Caught(k).next = k.next /\ ~Busy(Caught(k))
           /\ Returned(k).next = k.next /\ ~Busy(Returned(k))
<1> DEFINE r == Returned(k)
           n == k.attempts[Key(k)] + 1
           q == [r EXCEPT !.attempts[Key(k)] = n]
<1>1. r.next = k.next /\ r.job = Started.job /\ r \in Member
  BY StartedType DEF Returned, Member
<1>2. q.next = k.next /\ q.job = Started.job
  BY <1>1 DEF Member
<1>3. [q EXCEPT !.paused = @ \cup {Key(k)}, !.ready = FALSE].next = k.next
      /\ [q EXCEPT !.paused = @ \cup {Key(k)}, !.ready = FALSE].job = Started.job
  BY <1>1, <1>2 DEF Member
<1>4. Caught(k) \in {q, [q EXCEPT !.paused = @ \cup {Key(k)}, !.ready = FALSE]}
  BY DEF Caught
<1> QED
  BY <1>1, <1>2, <1>3, <1>4, StartedType DEF Busy

LEMMA ForgottenKeeps ==
    ASSUME NEW k \in Member
    PROVE  Forgotten(k) \in Member /\ Forgotten(k).next = k.next /\ Forgotten(k).job = k.job
  BY ConsumerAssumption DEF Forgotten, Member

LEMMA ResolvedAhead ==
    ASSUME NEW k \in Member, k.job \in Job
    PROVE  /\ Resolved(k) \in Member /\ Resolved(k).job = k.job
           /\ Resolved(k).next = [k.next EXCEPT ![k.job.part] = k.job.upto]
  BY DEF Resolved, Member, Job

\* One member moves and is ahead: so are all.
LEMMA AheadStep ==
    ASSUME Consistent, AllAhead, stored \subseteq stored', NEW c \in Consumers, NEW r,
           member' = [member EXCEPT ![c] = r], Ahead(r, stored')
    PROVE  AllAhead'
<1>1. ASSUME NEW d \in Consumers PROVE Ahead(member'[d], stored')
  <2>1. CASE d = c
    BY <2>1, OneMember
  <2>2. CASE d # c
    <3>1. member'[d] = member[d] /\ Ahead(member[d], stored)
      BY <2>2, OneMember DEF AllAhead
    <3> QED
      BY <3>1 DEF Ahead
  <2> QED
    BY <2>1, <2>2
<1> QED
  BY <1>1 DEF AllAhead

\* A member that goes on, or fails, within its handler keeps its offsets.
LEMMA AheadProceeds ==
    ASSUME Consistent, AllAhead, OwnerAhead, stored \subseteq stored', UNCHANGED Kafka, NEW c \in Consumers, NEW r,
           Proceed(c, r), r.next = member[c].next, Ahead(r, stored')
    PROVE  AllAhead' /\ OwnerAhead'
<1>1. PICK q \in {r, Caught(member[c])} : member' = [member EXCEPT ![c] = q]
  BY DEF Proceed
<1>2. q.next = member[c].next /\ Ahead(q, stored')
  BY OneMember, CaughtKeeps DEF Ahead
<1>3. AllAhead'
  BY <1>1, <1>2, AheadStep
<1>4. \A d \in Consumers : member'[d].next = member[d].next
  BY <1>1, <1>2, OneMember
<1> QED
  BY <1>3, <1>4 DEF OwnerAhead, Kafka

LEMMA FetchAhead ==
    ASSUME Consistent, AllAhead, OwnerAhead, NEW c \in Consumers, NEW p \in Partitions, NEW to \in 1 .. Size, Fetch(c, p, to)
    PROVE  AllAhead' /\ OwnerAhead'
<1> DEFINE k == member[c]
           seen == Visible(p, k.next[p], to)
<1>1. PICK first \in seen, last \in seen : member' = [member EXCEPT ![c].job = Slice(p, seen, first, last, to)]
  BY DEF Fetch
<1> DEFINE j == Slice(p, seen, first, last, to)
           batch == {<<p, o>> : o \in UpTo(seen, last)}
<1>2. k \in Member /\ member \in [Consumers -> Member] /\ k.next[p] \in Offset
  <2>1. k \in Member /\ member \in [Consumers -> Member]
    BY OneMember
  <2>2. k.next[p] \in Offset \cup {0} /\ k.next[p] # 0
    BY <2>1 DEF Member, Fetch, CanFetch
  <2> QED
    BY <2>1, <2>2
<1>3. \A o \in seen : o \in 1 .. Size /\ o >= k.next[p] /\ o <= to /\ <<p, o>> \notin Hidden
  BY <1>2, ConsumerAssumption DEF Visible, Offset
<1>4. batch \subseteq Message \ Hidden
  BY <1>3 DEF UpTo, Message
<1>5. /\ j.part = p /\ j.pc = "parse"
      /\ j.todo \cup j.good \subseteq batch
      /\ j.upto = (IF UpTo(seen, last) = seen THEN to ELSE last) + 1
  BY DEF Slice
<1>6. k.next[p] <= j.upto
  <2>1. last \in 1 .. Size /\ k.next[p] <= last /\ last <= to
    BY <1>3
  <2>3. k.next[p] \in Nat
    BY <1>2, ConsumerAssumption DEF Offset
  <2>2. j.upto = to + 1 \/ j.upto = last + 1
    BY <1>5
  <2> QED
    BY <2>1, <2>2, <2>3, ConsumerAssumption
<1> HIDE DEF j
<1>7. member' = [member EXCEPT ![c] = [k EXCEPT !.job = j]]
  BY <1>1, <1>2 DEF j
<1>8. [k EXCEPT !.job = j].next = k.next /\ [k EXCEPT !.job = j].job = j
  BY <1>2 DEF Member
<1>9. Ahead([k EXCEPT !.job = j], stored')
  BY <1>4, <1>5, <1>6, <1>8 DEF Ahead
<1>10. AllAhead'
  <2>1. stored' = stored
    BY DEF Fetch, Stores
  <2> QED
    BY <1>7, <1>9, <2>1, AheadStep
<1>11. \A d \in Consumers : member'[d].next = member[d].next
  BY <1>2, <1>7, <1>8
<1> QED
  BY <1>10, <1>11 DEF OwnerAhead, Fetch, Kafka

\* The steps within a handler.
LEMMA HandlerAhead ==
    ASSUME Consistent, AllAhead, OwnerAhead, NEW c \in Consumers,
           DeadLetter(c) \/ ReadRegistries(c) \/ Insert(c) \/ Project(c) \/ Write(c) \/ Fail(c)
    PROVE  AllAhead' /\ OwnerAhead'
<1> DEFINE k == member[c]
<1>1. k \in Member /\ k.job \in Job /\ Ahead(k, stored) /\ member \in [Consumers -> Member]
  BY OneMember DEF AllAhead
<1>2. ASSUME NEW j, Busy(k), j \in Job, j.part = k.job.part, j.upto = k.job.upto, j.todo \cup j.good \subseteq k.job.todo \cup k.job.good,
             j.pc = "write" => j.todo \subseteq stored'
      PROVE  Ahead([k EXCEPT !.job = j], stored') /\ [k EXCEPT !.job = j].next = k.next
  <2>1. [k EXCEPT !.job = j].next = k.next /\ [k EXCEPT !.job = j].job = j
    BY <1>1 DEF Member
  <2> QED
    BY <1>1, <1>2, <2>1 DEF Ahead
<1>3. CASE DeadLetter(c)
  <2>1. PICK m \in Todo(c) : Proceed(c, [k EXCEPT !.job.todo = @ \ {m}])
    BY <1>3 DEF DeadLetter
  <2> DEFINE j == Without(k, m)
  <2>2. [k EXCEPT !.job.todo = @ \ {m}] = [k EXCEPT !.job = j] /\ j \in Job /\ j.part = k.job.part /\ j.pc = k.job.pc
        /\ j.upto = k.job.upto /\ j.good = k.job.good /\ j.todo = k.job.todo \ {m}
    BY <1>1, WithoutMessage
  <2>3. Busy(k) /\ k.job.pc # "write" /\ UNCHANGED Kafka /\ stored' = stored
    BY <1>3 DEF DeadLetter, At, Busy
  <2> HIDE DEF j
  <2>4. Ahead([k EXCEPT !.job = j], stored') /\ [k EXCEPT !.job = j].next = k.next
    BY <1>2, <2>2, <2>3
  <2> QED
    BY <2>1, <2>2, <2>3, <2>4, AheadProceeds
<1>4. CASE Write(c)
  <2>1. PICK m \in Todo(c) : Proceed(c, [k EXCEPT !.job.todo = @ \ {m}])
    BY <1>4 DEF Write
  <2> DEFINE j == Without(k, m)
  <2>2. [k EXCEPT !.job.todo = @ \ {m}] = [k EXCEPT !.job = j] /\ j \in Job /\ j.part = k.job.part /\ j.pc = k.job.pc
        /\ j.upto = k.job.upto /\ j.good = k.job.good /\ j.todo = k.job.todo \ {m}
    BY <1>1, WithoutMessage
  <2>3. Busy(k) /\ k.job.pc = "write" /\ UNCHANGED Kafka /\ stored' = stored
    BY <1>4 DEF Write, At, Busy
  <2>4. k.job.todo \subseteq stored
    BY <1>1, <2>3 DEF Ahead
  <2> HIDE DEF j
  <2>5. Ahead([k EXCEPT !.job = j], stored') /\ [k EXCEPT !.job = j].next = k.next
    BY <1>2, <2>2, <2>3, <2>4
  <2> QED
    BY <2>1, <2>2, <2>3, <2>5, AheadProceeds
<1>5. CASE ReadRegistries(c)
  <2> DEFINE j == [k.job EXCEPT !.pc = "govern", !.todo = k.job.good \cap withdrawn, !.good = k.job.good \ withdrawn]
  <2>1. j \in Job /\ j.part = k.job.part /\ j.upto = k.job.upto /\ j.pc = "govern"
        /\ j.todo \cup j.good \subseteq k.job.good
    BY <1>1 DEF Job
  <2>2. Busy(k) /\ UNCHANGED Kafka /\ stored' = stored
    BY <1>5 DEF ReadRegistries, At, Busy, Stores
  <2>3. member' = [member EXCEPT ![c] = [k EXCEPT !.job = j]]
    BY <1>1, <1>5 DEF ReadRegistries, Member, Job
  <2> HIDE DEF j
  <2>4. Ahead([k EXCEPT !.job = j], stored') /\ [k EXCEPT !.job = j].next = k.next
    BY <1>2, <2>1, <2>2
  <2>5. Proceed(c, [k EXCEPT !.job = j])
    BY <2>3 DEF Proceed
  <2> QED
    BY <2>2, <2>4, <2>5, AheadProceeds
<1>6. CASE Insert(c)
  <2> DEFINE j == [k.job EXCEPT !.pc = "write", !.todo = k.job.good]
  <2>1. j \in Job /\ j.part = k.job.part /\ j.upto = k.job.upto /\ j.todo = k.job.good /\ j.good = k.job.good
    BY <1>1 DEF Job
  <2>2. Busy(k) /\ UNCHANGED Kafka /\ stored' = stored \cup k.job.good
    BY <1>6 DEF Insert, At, Busy
  <2>3. [k EXCEPT !.job.pc = "write", !.job.todo = k.job.good] = [k EXCEPT !.job = j]
    BY <1>1 DEF Member, Job
  <2>4. Proceed(c, [k EXCEPT !.job = j])
    BY <1>6, <2>3 DEF Insert
  <2> HIDE DEF j
  <2>5. Ahead([k EXCEPT !.job = j], stored') /\ [k EXCEPT !.job = j].next = k.next
    BY <1>2, <2>1, <2>2
  <2> QED
    BY <2>2, <2>4, <2>5, AheadProceeds
<1>7. CASE Project(c)
  <2> DEFINE j == [k.job EXCEPT !.pc = "write"]
  <2>1. j \in Job /\ j.part = k.job.part /\ j.upto = k.job.upto /\ j.todo = k.job.todo /\ j.good = k.job.good
    BY <1>1 DEF Job
  <2>2. Busy(k) /\ UNCHANGED Kafka /\ stored \subseteq stored' /\ k.job.todo = {}
    BY <1>7 DEF Project, At, Busy, Todo
  <2>3. [k EXCEPT !.job.pc = "write"] = [k EXCEPT !.job = j]
    BY <1>1 DEF Member, Job
  <2>4. Proceed(c, [k EXCEPT !.job = j])
    BY <1>7, <2>3 DEF Project
  <2> HIDE DEF j
  <2>5. Ahead([k EXCEPT !.job = j], stored') /\ [k EXCEPT !.job = j].next = k.next
    BY <1>2, <2>1, <2>2
  <2> QED
    BY <2>2, <2>4, <2>5, AheadProceeds
<1>8. CASE Fail(c)
  <2>1. Proceed(c, k) /\ UNCHANGED Kafka /\ stored' = stored
    BY <1>8 DEF Fail, Proceed, Stores
  <2> QED
    BY <1>1, <2>1, AheadProceeds
<1> QED
  BY <1>3, <1>4, <1>5, <1>6, <1>7, <1>8

\* A handler that is done moves its member, and with a commit the group, forward.
LEMMA FinishAhead ==
    ASSUME Consistent, AllAhead, OwnerAhead, NEW c \in Consumers, Finish(c) \/ FinishUncommitted(c)
    PROVE  /\ AllAhead' /\ OwnerAhead'
           /\ Forward
<1> DEFINE k == Resolved(member[c])
           p == member[c].job.part
<1>1. /\ member[c] \in Member /\ member[c].job \in Job /\ Ahead(member[c], stored)
      /\ member \in [Consumers -> Member] /\ Busy(member[c])
  BY OneMember DEF AllAhead, Finish, FinishUncommitted, At, Busy
<1>2. /\ k \in Member /\ k.job.part = p /\ p \in Partitions
      /\ k.next = [member[c].next EXCEPT ![p] = member[c].job.upto]
      /\ member[c].next[p] <= member[c].job.upto
  BY <1>1, ResolvedAhead DEF Ahead, Job
<1>3. \A q \in Partitions : k.next[q] = IF q = p THEN member[c].job.upto ELSE member[c].next[q]
  BY <1>1, <1>2 DEF Member
<1>4. PICK r : member' = [member EXCEPT ![c] = r] /\ r.next = k.next /\ ~Busy(r)
  <2>1. PICK r \in {Caught(k), Caught(Forgotten(k)), Returned(Forgotten(k))} : member' = [member EXCEPT ![c] = r]
    BY DEF Finish, FinishUncommitted
  <2>2. r.next = k.next /\ ~Busy(r)
    BY <1>2, CaughtKeeps, ForgottenKeeps
  <2> QED
    BY <2>1, <2>2
<1>5. stored' = stored /\ owner' = owner
  BY DEF Finish, FinishUncommitted, Stores, Kafka
<1>6. AllAhead'
  BY <1>4, <1>5, AheadStep DEF Ahead
<1>7. \/ committed' = committed
      \/ owner[p] = c /\ committed' = [committed EXCEPT ![p] = member[c].job.upto]
  BY <1>2, <1>3 DEF Finish, FinishUncommitted, Kafka
<1>8. /\ committed \in [Partitions -> Offset]
      /\ \A q \in Partitions : committed[q] \in Nat
      /\ \A q \in Partitions, d \in Consumers : member[d].next[q] \in Nat
      /\ member[c].job.upto \in Nat
  <2>1. committed \in [Partitions -> Offset] /\ member \in [Consumers -> Member]
    BY DEF Consistent, TypeOK
  <2>2. \A q \in Partitions, d \in Consumers : member[d].next[q] \in Offset \cup {0}
    BY <2>1 DEF Member
  <2> QED
    BY <1>1, <2>1, <2>2, ConsumerAssumption DEF Offset, Job
<1>9. \A d \in Consumers : d # c => member'[d] = member[d]
  BY <1>1, <1>4
<1>10. member'[c].next = k.next
  BY <1>1, <1>4
<1>11. ASSUME NEW q \in Partitions, NEW d \in Consumers, owner[q] = d
       PROVE  committed'[q] <= member'[d].next[q]
  <2>1. committed[q] <= member[d].next[q]
    BY <1>11 DEF OwnerAhead
  <2>2. CASE d = c /\ q = p
    <3>1. member'[d].next[q] = member[c].job.upto
      BY <1>3, <1>10, <2>2
    <3>2. committed'[q] \in {committed[q], member[c].job.upto}
      BY <1>7, <1>8, <2>2
    <3>3. member[d].next[q] <= member[c].job.upto
      BY <1>2, <2>2
    <3> QED
      BY <1>8, <2>1, <3>1, <3>2, <3>3
  <2>3. CASE d # c \/ q # p
    <3>1. committed'[q] = committed[q]
      BY <1>7, <1>8, <1>11, <2>3
    <3>2. member'[d].next[q] = member[d].next[q]
      BY <1>3, <1>9, <1>10, <2>3
    <3> QED
      BY <2>1, <3>1, <3>2
  <2> QED
    BY <2>2, <2>3
<1>12. owner[p] = c => committed[p] <= member[c].job.upto
  BY <1>2, <1>8 DEF OwnerAhead
<1> QED
  BY <1>2, <1>5, <1>6, <1>7, <1>11, <1>12 DEF OwnerAhead, Forward

\* The group: whoever takes a partition starts from the offset of the group.
LEMMA GroupAhead ==
    ASSUME Consistent, AllAhead, OwnerAhead, NEW c \in Consumers,
           \/ \E p \in Partitions : Assign(c, p)
           \/ Rejoin(c) \/ Stop(c) \/ Restart(c)
           \/ \E key \in Message : Resume(c, key)
    PROVE  AllAhead' /\ OwnerAhead'
<1> DEFINE k == member[c]
<1>1. k \in Member /\ Ahead(k, stored) /\ member \in [Consumers -> Member]
  BY OneMember DEF AllAhead
<1>2. UNCHANGED <<stored, committed>>
  BY DEF Assign, Rejoin, Stop, Restart, Resume, Kafka, Stores
<1>3. committed \in [Partitions -> Offset] /\ \A p \in Partitions : committed[p] <= committed[p]
  BY ConsumerAssumption DEF Consistent, TypeOK, Offset
<1>4. ASSUME NEW p \in Partitions, Assign(c, p) PROVE AllAhead' /\ OwnerAhead'
  <2> DEFINE r == [k EXCEPT !.next[p] = committed[p]]
  <2>1. member' = [member EXCEPT ![c] = r] /\ owner' = [owner EXCEPT ![p] = c] /\ ~Busy(k)
    BY <1>1, <1>4 DEF Assign, Idle, Busy
  <2>2. r.job = k.job /\ r.next = [k.next EXCEPT ![p] = committed[p]] /\ k.next \in [Partitions -> Offset \cup {0}]
    BY <1>1 DEF Member
  <2> HIDE DEF r
  <2>3. Ahead(r, stored')
    BY <2>1, <2>2 DEF Ahead, Busy
  <2>4. AllAhead'
    BY <1>2, <2>1, <2>3, AheadStep
  <2>5. owner \in [Partitions -> Consumers \cup {NoOne}]
    BY DEF Consistent, TypeOK
  <2>6. ASSUME NEW q \in Partitions, NEW d \in Consumers, owner'[q] = d
        PROVE  committed[q] <= member'[d].next[q]
    <3>1. CASE q = p
      BY <1>1, <1>3, <2>1, <2>2, <2>5, <2>6, <3>1
    <3>2. CASE q # p
      <4>1. owner[q] = d /\ member'[d].next[q] = member[d].next[q]
        BY <1>1, <2>1, <2>2, <2>5, <2>6, <3>2
      <4> QED
        BY <4>1 DEF OwnerAhead
    <3> QED
      BY <3>1, <3>2
  <2> QED
    BY <1>2, <2>4, <2>6 DEF OwnerAhead
<1>5. CASE Rejoin(c)
  <2> DEFINE f == [p \in Partitions |-> IF owner[p] = c THEN committed[p] ELSE 0]
             r == [k EXCEPT !.next = f]
  <2>1. member' = [member EXCEPT ![c] = r] /\ owner' = owner /\ ~Busy(k)
    BY <1>1, <1>5 DEF Rejoin, Idle, Busy, Kafka
  <2>2. r.job = k.job /\ r.next = f
    BY <1>1 DEF Member
  <2>3. Ahead(r, stored')
    BY <2>1, <2>2 DEF Ahead, Busy
  <2>4. AllAhead'
    BY <1>2, <2>1, <2>3, AheadStep
  <2>5. ASSUME NEW q \in Partitions, NEW d \in Consumers, owner[q] = d
        PROVE  committed[q] <= member'[d].next[q]
    <3>1. CASE d = c
      BY <1>1, <1>3, <2>1, <2>2, <2>5, <3>1
    <3>2. CASE d # c
      BY <1>1, <2>1, <2>5, <3>2 DEF OwnerAhead
    <3> QED
      BY <3>1, <3>2
  <2> QED
    BY <1>2, <2>1, <2>4, <2>5 DEF OwnerAhead
<1>6. ASSUME Stop(c) \/ \E key \in Message : Resume(c, key) PROVE AllAhead' /\ OwnerAhead'
  <2>1. PICK r : member' = [member EXCEPT ![c] = r] /\ r.job = k.job /\ r.next = k.next
    <3>1. CASE Stop(c)
      <4>1. [k EXCEPT !.running = FALSE, !.ready = FALSE].job = k.job
            /\ [k EXCEPT !.running = FALSE, !.ready = FALSE].next = k.next
        BY <1>1 DEF Member
      <4>2. member' = [member EXCEPT ![c] = [k EXCEPT !.running = FALSE, !.ready = FALSE]]
        BY <1>1, <3>1 DEF Stop
      <4> QED
        BY <4>1, <4>2
    <3>2. CASE \E key \in Message : Resume(c, key)
      <4>1. PICK key \in Message : Resume(c, key)
        BY <3>2
      <4> DEFINE r == [k EXCEPT !.paused = @ \ {key}, !.attempts[key] = 0, !.ready = TRUE]
      <4>2. r.job = k.job /\ r.next = k.next
        BY <1>1 DEF Member
      <4>3. member' = [member EXCEPT ![c] = r]
        BY <1>1, <4>1 DEF Resume, Member
      <4> QED
        BY <4>2, <4>3
    <3> QED
      BY <1>6, <3>1, <3>2
  <2>2. owner' = owner
    BY <1>6 DEF Stop, Resume, Kafka
  <2>3. Ahead(r, stored')
    BY <1>1, <1>2, <2>1 DEF Ahead, Busy
  <2>4. AllAhead'
    BY <1>2, <2>1, <2>3, AheadStep
  <2>5. \A d \in Consumers : member'[d].next = member[d].next
    BY <1>1, <2>1
  <2> QED
    BY <1>2, <2>2, <2>4, <2>5 DEF OwnerAhead
<1>7. CASE Restart(c)
  <2>1. member' = [member EXCEPT ![c] = Started]
        /\ owner' = [p \in Partitions |-> IF owner[p] = c THEN NoOne ELSE owner[p]]
    BY <1>7 DEF Restart
  <2>2. Ahead(Started, stored')
    BY StartedType DEF Ahead, Busy
  <2>3. AllAhead'
    BY <1>2, <2>1, <2>2, AheadStep
  <2>4. ASSUME NEW q \in Partitions, NEW d \in Consumers, owner'[q] = d
        PROVE  committed[q] <= member'[d].next[q]
    <3>1. d # c /\ owner[q] = d /\ member'[d] = member[d]
      BY <1>1, <2>1, <2>4, ConsumerAssumption
    <3> QED
      BY <3>1 DEF OwnerAhead
  <2> QED
    BY <1>2, <2>3, <2>4 DEF OwnerAhead
<1> QED
  BY <1>4, <1>5, <1>6, <1>7

\* What is skipped holds control records only.
LEMMA SkipAhead ==
    ASSUME Consistent, AllAhead, OwnerAhead, NEW c \in Consumers, NEW p \in Partitions, NEW to \in 1 .. Size, Skip(c, p, to)
    PROVE  AllAhead' /\ OwnerAhead' /\ Forward
<1> DEFINE k == member[c]
           r == [k EXCEPT !.next[p] = to + 1]
<1>1. k \in Member /\ member \in [Consumers -> Member] /\ ~Busy(k) /\ k.next[p] \in Nat /\ k.next[p] <= to
  <2>1. k \in Member /\ member \in [Consumers -> Member]
    BY OneMember
  <2>2. k.next[p] \in Offset \cup {0}
    BY <2>1 DEF Member
  <2> QED
    BY <2>1, <2>2, ConsumerAssumption DEF Skip, CanFetch, Idle, Busy, Offset
<1>2. r.job = k.job /\ r.next = [k.next EXCEPT ![p] = to + 1]
  BY <1>1 DEF Member
<1>3. member' = [member EXCEPT ![c] = r] /\ owner' = owner /\ stored' = stored
  BY <1>1 DEF Skip, Stores, Member
<1> HIDE DEF r
<1>4. AllAhead'
  <2>1. Ahead(r, stored')
    BY <1>1, <1>2 DEF Ahead, Busy
  <2> QED
    BY <1>3, <2>1, AheadStep
<1>5. /\ committed \in [Partitions -> Offset] /\ k.next \in [Partitions -> Offset \cup {0}]
      /\ \A q \in Partitions : committed[q] \in Nat
  <2>1. committed \in [Partitions -> Offset] /\ k.next \in [Partitions -> Offset \cup {0}]
    BY <1>1 DEF Consistent, TypeOK, Member
  <2> QED
    BY <2>1, ConsumerAssumption DEF Offset
<1>6. committed' = IF owner[p] = c THEN [committed EXCEPT ![p] = to + 1] ELSE committed
  BY DEF Skip
<1>7. ASSUME NEW q \in Partitions, NEW d \in Consumers, owner[q] = d
      PROVE  committed'[q] <= member'[d].next[q]
  <2>1. committed[q] <= member[d].next[q]
    BY <1>7 DEF OwnerAhead
  <2>2. CASE d = c /\ q = p
    <3>1. member'[d].next[q] = to + 1
      BY <1>1, <1>2, <1>3, <1>5, <2>2
    <3>2. committed'[q] = to + 1
      BY <1>5, <1>6, <1>7, <2>2
    <3> QED
      BY <3>1, <3>2
  <2>3. CASE d # c \/ q # p
    <3>1. committed'[q] = committed[q]
      BY <1>5, <1>6, <1>7, <2>3
    <3>2. member'[d].next[q] = member[d].next[q]
      BY <1>1, <1>2, <1>3, <1>5, <2>3
    <3> QED
      BY <2>1, <3>1, <3>2
  <2> QED
    BY <2>2, <2>3
<1>8. Forward
  <2>1. CASE owner[p] = c
    <3>1. committed[p] <= k.next[p]
      BY <2>1 DEF OwnerAhead
    <3>2. committed[p] <= to + 1
      BY <1>1, <1>5, <3>1
    <3> QED
      BY <1>6, <2>1, <3>2 DEF Forward
  <2> QED
    BY <1>6, <2>1 DEF Forward
<1> QED
  BY <1>3, <1>4, <1>7, <1>8 DEF OwnerAhead

LEMMA AutoCommitAhead ==
    ASSUME Consistent, AllAhead, OwnerAhead, NEW c \in Consumers, NEW p \in Partitions, AutoCommit(c, p)
    PROVE  AllAhead' /\ OwnerAhead' /\ Forward
<1>1. /\ owner[p] = c /\ committed' = [committed EXCEPT ![p] = member[c].next[p]]
      /\ UNCHANGED <<owner, member, stored>>
  BY DEF AutoCommit, Stores
<1>2. /\ committed \in [Partitions -> Offset]
      /\ \A q \in Partitions : committed[q] \in Nat
      /\ \A q \in Partitions, d \in Consumers : member[d].next[q] \in Nat
  <2>1. committed \in [Partitions -> Offset] /\ member \in [Consumers -> Member]
    BY DEF Consistent, TypeOK
  <2>2. \A q \in Partitions, d \in Consumers : member[d].next[q] \in Offset \cup {0}
    BY <2>1 DEF Member
  <2> QED
    BY <2>1, <2>2, ConsumerAssumption DEF Offset
<1>3. Forward
  BY <1>1, <1>2 DEF Forward, OwnerAhead
<1>4. OwnerAhead'
  BY <1>1, <1>2 DEF OwnerAhead
<1> QED
  BY <1>1, <1>3, <1>4 DEF AllAhead, Ahead

\* Steps that store nothing and commit nothing.
Silent ==
    \/ \E c \in Consumers :
          \/ \E p \in Partitions, to \in 1 .. Size : Fetch(c, p, to)
          \/ ReadRegistries(c) \/ Fail(c) \/ FinishUncommitted(c) \/ Rejoin(c) \/ Stop(c) \/ Restart(c)
          \/ \E p \in Partitions : Assign(c, p)
          \/ \E key \in Message : Resume(c, key)
    \/ \E m \in Message : Withdraw(m)
    \/ Outage
    \/ UNCHANGED vars

\* The steps that are seen: they store, set aside or commit.
Seen ==
    \E c \in Consumers :
        \/ DeadLetter(c) \/ Insert(c) \/ Project(c) \/ Write(c) \/ Finish(c)
        \/ \E p \in Partitions, to \in 1 .. Size : Skip(c, p, to)
        \/ \E p \in Partitions : AutoCommit(c, p)

LEMMA SilentOrSeen == [Next]_vars => Silent \/ Seen
  BY DEF Next, Step, Silent, Seen

LEMMA NextAhead ==
    ASSUME Consistent, AllAhead, OwnerAhead, [Next]_vars
    PROVE  AllAhead' /\ OwnerAhead'
<1>1. CASE \E c \in Consumers : Step(c) \/ Fail(c) \/ FinishUncommitted(c)
  BY <1>1, FetchAhead, SkipAhead, HandlerAhead, FinishAhead DEF Step
<1>2. CASE \E c \in Consumers : \/ Rejoin(c) \/ Stop(c) \/ Restart(c)
                                \/ \E p \in Partitions : Assign(c, p)
                                \/ \E key \in Message : Resume(c, key)
  BY <1>2, GroupAhead
<1>3. CASE \E c \in Consumers, p \in Partitions : AutoCommit(c, p)
  BY <1>3, AutoCommitAhead
<1>4. CASE \/ \E m \in Message : Withdraw(m)
          \/ Outage \/ UNCHANGED vars
  <2>1. UNCHANGED <<member, owner, committed, stored>>
    BY <1>4 DEF Withdraw, Outage, vars, Kafka, Stores
  <2> QED
    BY <2>1 DEF AllAhead, OwnerAhead, Ahead
<1> QED
  BY <1>1, <1>2, <1>3, <1>4 DEF Next

-----------------------------------------------------------------------------
\* The refinement.

\* Where the offset of the group moves, it moves over what is done with.
LEMMA ForwardCommits ==
    ASSUME Consistent, Consistent', Forward, UNCHANGED Stores
    PROVE  [Delivery!Next]_<<stored, written, dead, committed>>
<1>1. CASE committed' = committed
  BY <1>1 DEF Stores
<1>2. CASE committed' # committed
  <2>p. PICK p \in Partitions : \E n : committed[p] <= n /\ committed' = [committed EXCEPT ![p] = n]
    BY <1>2 DEF Forward
  <2>1. PICK n : committed[p] <= n /\ committed' = [committed EXCEPT ![p] = n]
    BY <2>p
  <2>2. committed \in [Partitions -> Offset] /\ committed' \in [Partitions -> Offset]
    BY DEF Consistent, TypeOK
  <2>3. committed'[p] = n
    BY <2>1, <2>2
  <2>4. committed[p] \in Offset /\ n \in Offset
    BY <2>2, <2>3
  <2>5. n \in committed[p] .. Size + 1
    BY <2>1, <2>4, ConsumerAssumption DEF Offset
  <2>6. Below(p, n, written, dead)
    BY <2>3 DEF Consistent, Stores
  <2>7. Delivery!Done(p, n)
    BY <2>6 DEF Below, Delivery!Done
  <2>8. Delivery!Commit(p)
    BY <2>1, <2>5, <2>7 DEF Delivery!Commit, Stores
  <2> QED
    BY <2>8 DEF Delivery!Next
<1> QED
  BY <1>1, <1>2

LEMMA HandlerDelivers ==
    ASSUME Consistent, AllAhead, NEW c \in Consumers, DeadLetter(c) \/ Insert(c) \/ Project(c) \/ Write(c)
    PROVE  Delivery!Store \/ Delivery!SetAside
<1> DEFINE k == member[c]
<1>1. /\ Busy(k) /\ Ahead(k, stored) /\ Sound(k, written, dead, withdrawn)
      /\ stored \cap Poison = {}
  BY OneMember DEF DeadLetter, Insert, Project, Write, At, Busy, AllAhead, Consistent, OneOutcome
<1>2. k.job.good \subseteq Delivery!Readable
  BY <1>1 DEF Ahead, Sound, Working, Delivery!Readable, Delivery!Message, Message
<1>3. CASE DeadLetter(c)
  <2>1. PICK m \in Todo(c) : dead' = dead \cup {m}
    BY <1>3 DEF DeadLetter
  <2>2. m \in Delivery!Message \ Hidden
    BY <1>1 DEF Ahead, Todo, Delivery!Message, Message
  <2> QED
    BY <1>3, <2>1, <2>2 DEF DeadLetter, Kafka, Delivery!SetAside
<1>4. CASE Insert(c)
  <2>1. stored' = stored \cup k.job.good /\ written' = written \cup {} /\ UNCHANGED <<dead, committed>>
    BY <1>4 DEF Insert, Kafka
  <2> QED
    BY <1>2, <2>1 DEF Delivery!Store
<1>5. CASE Project(c)
  <2>1. stored' = stored \cup k.job.good /\ written' = written \cup k.job.good /\ UNCHANGED <<dead, committed>>
    BY <1>5 DEF Project, Kafka
  <2> QED
    BY <1>2, <2>1 DEF Delivery!Store
<1>6. CASE Write(c)
  <2>1. PICK m \in Todo(c) : written' = written \cup {m}
    BY <1>6 DEF Write
  <2>2. m \in stored /\ m \in Delivery!Readable
    BY <1>1, <1>6 DEF Write, At, Ahead, Todo, Delivery!Readable, Delivery!Message, Message
  <2>3. stored' = stored \cup {} /\ UNCHANGED <<dead, committed>>
    BY <1>6 DEF Write, Kafka
  <2> QED
    BY <2>1, <2>2, <2>3 DEF Delivery!Store
<1> QED
  BY <1>3, <1>4, <1>5, <1>6

LEMMA DeliveryStep ==
    ASSUME Consistent, Consistent', AllAhead, OwnerAhead, [Next]_vars
    PROVE  [Delivery!Next]_<<stored, written, dead, committed>>
<1>1. CASE Silent
  <2>1. ASSUME NEW c \in Consumers, NEW p \in Partitions, NEW to, Fetch(c, p, to) \/ Assign(c, p)
        PROVE  UNCHANGED <<stored, written, dead, committed>>
    BY <2>1 DEF Fetch, Assign, Kafka, Stores
  <2>2. ASSUME NEW c \in Consumers, NEW key, Resume(c, key)
        PROVE  UNCHANGED <<stored, written, dead, committed>>
    BY <2>2 DEF Resume, Kafka, Stores
  <2>3. ASSUME NEW c \in Consumers, ReadRegistries(c) \/ Fail(c) \/ FinishUncommitted(c)
        PROVE  UNCHANGED <<stored, written, dead, committed>>
    BY <2>3 DEF ReadRegistries, Fail, FinishUncommitted, Kafka, Stores
  <2>4. ASSUME NEW c \in Consumers, Rejoin(c) \/ Stop(c) \/ Restart(c)
        PROVE  UNCHANGED <<stored, written, dead, committed>>
    BY <2>4 DEF Rejoin, Stop, Restart, Kafka, Stores
  <2>5. ASSUME NEW m, Withdraw(m) \/ Outage \/ UNCHANGED vars
        PROVE  UNCHANGED <<stored, written, dead, committed>>
    BY <2>5 DEF Withdraw, Outage, vars, Kafka, Stores
  <2> QED
    BY <1>1, <2>1, <2>2, <2>3, <2>4, <2>5 DEF Silent
<1>2. ASSUME NEW c \in Consumers, DeadLetter(c) \/ Insert(c) \/ Project(c) \/ Write(c)
      PROVE  Delivery!Next
  BY <1>2, HandlerDelivers DEF Delivery!Next
<1>3. ASSUME NEW c \in Consumers,
             \/ Finish(c)
             \/ \E p \in Partitions, to \in 1 .. Size : Skip(c, p, to)
             \/ \E p \in Partitions : AutoCommit(c, p)
      PROVE  Forward /\ UNCHANGED Stores
  BY <1>3, FinishAhead, SkipAhead, AutoCommitAhead DEF Finish, Skip, AutoCommit
<1> QED
  BY <1>1, <1>2, <1>3, SilentOrSeen, ForwardCommits DEF Seen

\* The group of consumers implements the abstract delivery: facts are stored before
\* what depends on them, and the offset of the group only moves forward, only over
\* messages that are done with, for any number of processes, crashes and rebalances
\* (eachBatch, resolveOffset).
THEOREM DeliveryImplemented == Spec => DeliverySpec
<1>1. Init => Delivery!Init
  BY DEF Init, Delivery!Init
<1>2. Init => AllAhead /\ OwnerAhead
  <2> SUFFICES ASSUME Init PROVE AllAhead /\ OwnerAhead
    OBVIOUS
  <2>1. \A c \in Consumers : ~Busy(member[c])
    BY StartedType DEF Init, Busy
  <2>2. \A p \in Partitions, c \in Consumers : owner[p] # c
    BY ConsumerAssumption DEF Init
  <2> QED
    BY <2>1, <2>2 DEF AllAhead, Ahead, OwnerAhead
<1>3. Consistent /\ AllAhead /\ OwnerAhead /\ [Next]_vars => AllAhead' /\ OwnerAhead'
  BY NextAhead
<1>4. Consistent /\ Consistent' /\ AllAhead /\ OwnerAhead /\ [Next]_vars
        => [Delivery!Next]_<<stored, written, dead, committed>>
  BY DeliveryStep
<1> QED
  BY <1>1, <1>2, <1>3, <1>4, AlwaysConsistent, PTL DEF Spec, DeliverySpec, Delivery!Spec
=============================================================================
