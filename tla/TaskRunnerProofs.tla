-------------------------- MODULE TaskRunnerProofs --------------------------
(***************************************************************************)
(* TaskRunner for any task file: its types, among them that no task is     *)
(* attempted more often than it may be, and what a prompt quotes of the    *)
(* attempt that completed the dependency.                                  *)
(*                                                                         *)
(* The second is proved where the run checks it: names that differ differ  *)
(* as file names, and the threads that copy output keep up with the loop.  *)
(* A prompt is expanded only while the loop launches, and the pass before  *)
(* ended with the thread of every completed task done.  So what has to be  *)
(* kept is how much of what its session printed the log of a task holds,   *)
(* from its launch on, and that nothing of a dependency that was quoted    *)
(* changes any more.                                                       *)
(***************************************************************************)
EXTENDS TaskRunner, SequenceTheorems, TLAPS

OwnSlugs == \A t, u \in Tasks : Slug[t] = Slug[u] => t = u

Counted ==
    /\ TypeOK
    /\ \A t \in Tasks : state[t] \in Unstarted => attempts[t] < MaxAttempts[t]

(* No log is ahead of the attempts of the task it is named after.          *)
Behind == \A f \in DOMAIN log : \A t \in Tasks : f[1] = Slug[t] => f[2] <= attempts[t]

(* Some of the first n lines of an attempt in order, and all of them.      *)
SomeOf(t, a, n, lines) ==
    /\ \A i \in DOMAIN lines : \E k \in 1 .. n : lines[i] = <<t, a, k>>
    /\ \A i, j \in DOMAIN lines : i < j => lines[i][3] < lines[j][3]
AllOf(t, a, n) == [i \in 1 .. n |-> <<t, a, i>>]

(* What the log of the latest attempt holds, by the stage of its thread.   *)
Holds(t, lines) ==
    /\ SomeOf(t, attempts[t], copied[t], lines)
    /\ t \notin lost => lines = AllOf(t, attempts[t], copied[t])
Written(t) ==
    /\ pump[t] # "none" /\ copied[t] <= printed[t]
    /\ pump[t] = "opening" => LogOf(t) \notin DOMAIN log /\ copied[t] = 0
    /\ pump[t] = "reading" => LogOf(t) \in DOMAIN log
    /\ LogOf(t) \in DOMAIN log => Holds(t, log[LogOf(t)])
    /\ pump[t] = "done" /\ t \notin lost => copied[t] = printed[t] /\ child[t] # "alive"

Started == {t \in Tasks : state[t] \in {"running", "completed"}}
Completed == {t \in Tasks : state[t] = "completed"}
Copied == {t \in Completed : pump[t] = "done"}

Finished == \A t \in Completed : child[t] # "alive"
CopiedFirst == pc[1] \in {"top", "launch"} => Completed \subseteq Copied
Settled == \A t \in Tasks : \A quote \in given[t] : quote.of \in Copied

Quoting ==
    /\ Behind
    /\ \A t \in Started : Written(t)
    /\ Finished /\ CopiedFirst /\ Settled
    /\ QuotesWhole

-----------------------------------------------------------------------------
(* Lines of an attempt.                                                     *)

LEMMA AppendAll ==
    ASSUME NEW S, NEW t, NEW a, NEW n \in Nat,
           AllOf(t, a, n) \in Seq(S), <<t, a, n + 1>> \in S
    PROVE  Append(AllOf(t, a, n), <<t, a, n + 1>>) = AllOf(t, a, n + 1)
  <1> DEFINE s == AllOf(t, a, n)
             e == <<t, a, n + 1>>
             longer == Append(s, e)
  <1>1. DOMAIN s = 1 .. n /\ \A i \in 1 .. n : s[i] = <<t, a, i>>
    BY DEF AllOf
  <1>2. Len(s) = n
    BY <1>1, LenProperties
  <1>3. /\ longer \in Seq(S) /\ Len(longer) = n + 1
        /\ \A i \in 1 .. n : longer[i] = <<t, a, i>>
        /\ longer[n + 1] = e
    BY <1>1, <1>2, AppendProperties
  <1>4. longer = [i \in 1 .. n + 1 |-> longer[i]]
    BY <1>3, LenProperties
  <1>5. \A i \in 1 .. n + 1 : longer[i] = <<t, a, i>>
    BY <1>3
  <1> QED BY <1>4, <1>5 DEF AllOf

LEMMA AppendSome ==
    ASSUME NEW S, NEW t, NEW a, NEW n \in Nat, NEW lines \in Seq(S),
           SomeOf(t, a, n, lines), <<t, a, n + 1>> \in S
    PROVE  SomeOf(t, a, n + 1, Append(lines, <<t, a, n + 1>>))
  <1> DEFINE e == <<t, a, n + 1>>
             longer == Append(lines, e)
  <1>1. /\ Len(lines) \in Nat /\ DOMAIN lines = 1 .. Len(lines)
        /\ DOMAIN longer = 1 .. Len(lines) + 1
        /\ \A i \in 1 .. Len(lines) : longer[i] = lines[i]
        /\ longer[Len(lines) + 1] = e
    BY AppendProperties, LenProperties
  <1>2. \A i \in 1 .. Len(lines) : \E k \in 1 .. n : longer[i] = <<t, a, k>>
    BY <1>1 DEF SomeOf
  <1>3. \A i, j \in 1 .. Len(lines) : i < j => longer[i][3] < longer[j][3]
    BY <1>1 DEF SomeOf
  <1>4. \A i \in 1 .. Len(lines) : longer[i][3] < longer[Len(lines) + 1][3]
    BY <1>1, <1>2
  <1>5. \A i \in 1 .. Len(lines) + 1 : \E k \in 1 .. n + 1 : longer[i] = <<t, a, k>>
    BY <1>1, <1>2
  <1>6. ASSUME NEW i \in 1 .. Len(lines) + 1, NEW j \in 1 .. Len(lines) + 1, i < j
        PROVE  longer[i][3] < longer[j][3]
    <2>1. i \in 1 .. Len(lines) /\ (j \in 1 .. Len(lines) \/ j = Len(lines) + 1)
      BY <1>1, <1>6
    <2> HIDE DEF longer
    <2> QED BY <1>3, <1>4, <1>6, <2>1
  <1> QED BY <1>1, <1>5, <1>6 DEF SomeOf

LEMMA SomeOfMore ==
    ASSUME NEW t, NEW a, NEW n \in Nat, NEW m \in Nat, n <= m, NEW lines, SomeOf(t, a, n, lines)
    PROVE  SomeOf(t, a, m, lines)
  BY DEF SomeOf

LEMMA CutSome ==
    ASSUME NEW S, NEW t, NEW a, NEW n \in Nat, NEW lines \in Seq(S),
           SomeOf(t, a, n, lines), NEW m \in Nat, m <= Len(lines)
    PROVE  SomeOf(t, a, n, SubSeq(lines, 1, m))
  <1>1. Len(lines) \in Nat /\ DOMAIN lines = 1 .. Len(lines)
    BY LenProperties
  <1> DEFINE cut == SubSeq(lines, 1, m)
  <1>2. cut = [i \in 1 .. m |-> lines[i]]
    BY <1>1
  <1> HIDE DEF cut
  <1>3. DOMAIN cut = 1 .. m /\ \A i \in 1 .. m : cut[i] = lines[i]
    BY <1>2
  <1>4. \A i \in 1 .. m : i \in DOMAIN lines
    BY <1>1
  <1>5. \A i \in DOMAIN cut : \E k \in 1 .. n : cut[i] = <<t, a, k>>
    BY <1>3, <1>4 DEF SomeOf
  <1>6. \A i, j \in DOMAIN cut : i < j => cut[i][3] < cut[j][3]
    BY <1>3, <1>4 DEF SomeOf
  <1>7. SomeOf(t, a, n, cut)
    BY <1>5, <1>6 DEF SomeOf
  <1> QED BY <1>7 DEF cut

LEMMA CutAll ==
    ASSUME NEW t, NEW a, NEW n \in Nat, NEW m \in Nat, m <= n
    PROVE  SubSeq(AllOf(t, a, n), 1, m) = AllOf(t, a, m)
  BY DEF AllOf

-----------------------------------------------------------------------------
(* Types.                                                                   *)

Points == ({"launch", "poll"} \X (1 .. Len(Order) + 1)) \cup ({"top", "done", "dead"} \X {0})
Pumps == {"none", "opening", "reading", "done"}
Children == {"none", "alive", "succeeded", "died"}

LEMMA Places ==
    ASSUME TypeOK, NEW kind \in {"launch", "poll"}, pc[1] = kind
    PROVE  /\ pc = <<kind, pc[2]>> /\ pc[2] \in 1 .. Len(Order) + 1 /\ Len(Order) \in Nat
           /\ pc[2] <= Len(Order) => /\ Order[pc[2]] \in Tasks
                                     /\ <<kind, pc[2] + 1>> \in Points
  <1>1. Order \in Seq(Tasks)
    BY RunnerAssumption
  <1>2. Len(Order) \in Nat
    BY <1>1
  <1>3. pc \in Points
    BY DEF TypeOK, Points
  <1>4. pc \in {"launch", "poll"} \X (1 .. Len(Order) + 1)
    BY <1>3 DEF Points
  <1>5. pc = <<kind, pc[2]>> /\ pc[2] \in 1 .. Len(Order) + 1
    BY <1>4
  <1>6. pc[2] <= Len(Order) => Order[pc[2]] \in Tasks
    BY <1>1, <1>2, <1>5
  <1>7. pc[2] <= Len(Order) => pc[2] + 1 \in 1 .. Len(Order) + 1
    BY <1>2, <1>5
  <1> QED BY <1>2, <1>5, <1>6, <1>7 DEF Points

LEMMA Attempts ==
    ASSUME Counted, NEW t \in Tasks
    PROVE  /\ MaxAttempts[t] \in Nat \ {0}
           /\ attempts[t] \in Nat /\ attempts[t] <= MaxAttempts[t]
           /\ attempts[t] \in 0 .. MaxAttempts[t]
  BY RunnerAssumption DEF Counted, TypeOK

LEMMA InitCounted == Init => Counted
  <1> SUFFICES ASSUME Init PROVE Counted
    OBVIOUS
  <1>1. \A t \in Tasks : /\ attempts[t] = 0 /\ 0 <= MaxAttempts[t]
                         /\ 0 < MaxAttempts[t]
    BY RunnerAssumption DEF Init
  <1>2. DOMAIN log = {}
    BY DEF Init
  <1>3. given \in [Tasks -> SUBSET Quote]
    BY DEF Init
  <1>4. TypeOK
    BY <1>1, <1>2, <1>3 DEF Init, TypeOK, States, Unstarted
  <1> QED BY <1>1, <1>4 DEF Counted

LEMMA TopCounted == ASSUME Counted, Top PROVE Counted'
  <1>1. /\ state' \in [Tasks -> States]
        /\ \A t \in Tasks : state'[t] \in Unstarted => state[t] \in Unstarted
    BY DEF Top, WithFailures, Aborted, Counted, TypeOK, States, Unstarted, Terminal
  <1>2. child' \in [Tasks -> Children]
    BY DEF Top, Counted, TypeOK, Children
  <1>3. pc' \in Points
    BY RunnerAssumption DEF Top, Points
  <1> QED BY <1>1, <1>2, <1>3 DEF Top, Counted, TypeOK, Points, Children

(* A retry is queued only while attempts are left.                         *)
LEMMA RetryCounted ==
    ASSUME Counted, NEW t \in Tasks, NEW started \in 0 .. MaxAttempts[t],
           RetryOrFail(t, started)
    PROVE  /\ state' \in [Tasks -> States] /\ backoff' \subseteq Tasks
           /\ \A u \in Tasks \ {t} : state'[u] = state[u]
           /\ state'[t] \in {"retry_queued", "failed"}
           /\ state'[t] \in Unstarted => started < MaxAttempts[t]
  <1>1. state \in [Tasks -> States] /\ backoff \subseteq Tasks
    BY DEF Counted, TypeOK
  <1>2. CASE started < MaxAttempts[t]
    BY <1>1, <1>2 DEF RetryOrFail, States, Unstarted
  <1>3. CASE ~(started < MaxAttempts[t])
    BY <1>1, <1>3 DEF RetryOrFail, States, Unstarted, Terminal
  <1> QED BY <1>2, <1>3

(* One task starts, or tries to, in one of four ways.                      *)
StartedOne(t) ==
    \/ SkipRemote(t) \/ FailTemplate(t) \/ LaunchSession(t) \/ LaunchError(t)
SameTasks == UNCHANGED <<state, attempts, backoff, session, given>>

(* A step of the launch loop: one task starts, or only the place changes.  *)
LEMMA LaunchCases ==
    ASSUME TypeOK, Launch
    PROVE  /\ pc[1] = "launch" /\ pc' \in Points /\ pc'[1] \in {"launch", "poll", "dead"}
           /\ UNCHANGED <<parallel, log, cancel>>
           /\ SameTasks \/ \E t \in Tasks : Ready(t) /\ StartedOne(t)
  <1> DEFINE t == Order[pc[2]]
  <1>1. /\ pc[1] = "launch" /\ UNCHANGED <<parallel, log, cancel>>
        /\ pc[2] \in 1 .. Len(Order) + 1 /\ Len(Order) \in Nat
        /\ pc[2] <= Len(Order) => t \in Tasks /\ <<"launch", pc[2] + 1>> \in Points
    BY Places DEF Launch
  <1>2. <<"poll", 1>> \in Points /\ <<"dead", 0>> \in Points
    BY <1>1 DEF Points
  <1>3. CASE pc[2] > Len(Order)
    <2>1. pc' = <<"poll", 1>> /\ SameTasks
      BY <1>1, <1>3 DEF Launch, Turn, SameTasks
    <2> QED BY <1>1, <1>2, <2>1
  <1>4. CASE pc[2] <= Len(Order) /\ StopsLaunching(t)
    <2>1. pc' = <<"poll", 1>> /\ SameTasks
      BY <1>1, <1>4 DEF Launch, Turn, SameTasks
    <2> QED BY <1>1, <1>2, <2>1
  <1>5. CASE pc[2] <= Len(Order) /\ ~StopsLaunching(t)
    <2>1. \/ pc' = <<"launch", pc[2] + 1>> /\ SameTasks
          \/ pc' = <<"launch", pc[2] + 1>> /\ Ready(t) /\ StartedOne(t)
          \/ CutPanics(t)
      BY <1>1, <1>5 DEF Launch, StartedOne, Turn, SameTasks
    <2>2. CutPanics(t) => pc' = <<"dead", 0>> /\ SameTasks
      BY DEF CutPanics, Die, SameTasks
    <2> QED BY <1>1, <1>2, <1>5, <2>1, <2>2
  <1> QED BY <1>1, <1>3, <1>4, <1>5

(* What a launch quotes is made of lines of the log.                       *)
LEMMA QuoteTyped ==
    ASSUME TypeOK, NEW d \in Tasks, OutputOf(d) \in DOMAIN log
    PROVE  Quoted(d) \in Quote
  <1> DEFINE lines == log[OutputOf(d)]
  <1>1. lines \in Seq(Lines) /\ MaxCaptured \in Nat
    BY RunnerAssumption DEF TypeOK
  <1>2. Len(lines) \in Nat /\ DOMAIN lines = 1 .. Len(lines)
    BY <1>1, LenProperties
  <1>3. ASSUME Len(lines) > MaxCaptured
        PROVE  SubSeq(lines, 1, MaxCaptured) \in Seq(Lines)
    <2>1. \A i \in 1 .. MaxCaptured : lines[i] \in Lines
      BY <1>1, <1>2, <1>3, ElementOfSeq
    <2> QED BY <1>1, <2>1, SubSeqProperties
  <1> QED BY <1>1, <1>3 DEF Quoted, TooLong, Quote

LEMMA StartCounted ==
    ASSUME Counted, NEW t \in Tasks, Ready(t), StartedOne(t)
    PROVE  /\ state' \in [Tasks -> States]
           /\ attempts' \in [Tasks -> Nat]
           /\ \A u \in Tasks : attempts'[u] <= MaxAttempts[u]
           /\ backoff' \subseteq Tasks
           /\ child' \in [Tasks -> Children] /\ pump' \in [Tasks -> Pumps]
           /\ printed' \in [Tasks -> Nat] /\ copied' \in [Tasks -> Nat]
           /\ lost' \subseteq Tasks /\ given' \in [Tasks -> SUBSET Quote]
           /\ \A u \in Tasks : state'[u] \in Unstarted => attempts'[u] < MaxAttempts[u]
  <1>1. /\ state \in [Tasks -> States] /\ backoff \subseteq Tasks
        /\ child \in [Tasks -> Children] /\ pump \in [Tasks -> Pumps]
        /\ printed \in [Tasks -> Nat] /\ copied \in [Tasks -> Nat]
        /\ lost \subseteq Tasks /\ given \in [Tasks -> SUBSET Quote]
        /\ \A u \in Tasks : state[u] \in Unstarted => attempts[u] < MaxAttempts[u]
        /\ attempts \in [Tasks -> Nat]
        /\ \A u \in Tasks : attempts[u] <= MaxAttempts[u]
        /\ attempts[t] < MaxAttempts[t]
    BY DEF Counted, TypeOK, Children, Pumps, Ready
  <1>2. attempts[t] + 1 \in 0 .. MaxAttempts[t] /\ attempts[t] + 1 <= MaxAttempts[t]
    BY <1>1, Attempts
  <1>3. CASE SkipRemote(t) \/ FailTemplate(t)
    BY <1>1, <1>3 DEF SkipRemote, FailTemplate, States, Terminal, Unstarted, session
  <1>4. CASE LaunchSession(t)
    <2>1. attempts' = [attempts EXCEPT ![t] = @ + 1]
      BY <1>4 DEF LaunchSession
    <2>2. /\ attempts' \in [Tasks -> Nat]
          /\ \A u \in Tasks : attempts'[u] <= MaxAttempts[u]
      BY <1>1, <1>2, <2>1
    <2>3. /\ state' \in [Tasks -> States]
          /\ \A u \in Tasks : state'[u] \in Unstarted => u # t /\ state[u] \in Unstarted
      BY <1>1, <1>4 DEF LaunchSession, States, Unstarted
    <2>4. \A u \in Tasks : u # t => attempts'[u] = attempts[u]
      BY <1>1, <2>1
    <2>5. /\ child' \in [Tasks -> Children] /\ pump' \in [Tasks -> Pumps]
          /\ printed' \in [Tasks -> Nat] /\ copied' \in [Tasks -> Nat]
          /\ lost' \subseteq Tasks
      BY <1>1, <1>4 DEF LaunchSession, Children, Pumps
    <2>6. given' \in [Tasks -> SUBSET Quote]
      <3>1. Quotes[t] \subseteq Tasks
        BY RunnerAssumption
      <3>2. \A q \in Quotes[t] : Quoted(q) \in Quote
        BY <1>4, <3>1, QuoteTyped DEF LaunchSession, Readable, Counted
      <3>3. {Quoted(q) : q \in Quotes[t]} \in SUBSET Quote
        BY <3>2
      <3> QED BY <1>1, <1>4, <3>3 DEF LaunchSession
    <2> QED BY <1>1, <1>4, <2>2, <2>3, <2>4, <2>5, <2>6 DEF LaunchSession
  <1>5. CASE LaunchError(t)
    <2>1. /\ attempts' = [attempts EXCEPT ![t] = @ + 1]
          /\ RetryOrFail(t, attempts[t] + 1)
          /\ pump' = [pump EXCEPT ![t] = "none"]
          /\ UNCHANGED <<child, printed, copied, lost, given>>
      BY <1>5 DEF LaunchError
    <2>2. /\ attempts' \in [Tasks -> Nat]
          /\ \A u \in Tasks : attempts'[u] <= MaxAttempts[u]
      BY <1>1, <1>2, <2>1
    <2>3. /\ state' \in [Tasks -> States] /\ backoff' \subseteq Tasks
          /\ \A u \in Tasks \ {t} : state'[u] = state[u]
          /\ state'[t] \in Unstarted => attempts[t] + 1 < MaxAttempts[t]
      BY <1>2, <2>1, RetryCounted
    <2>4. \A u \in Tasks : attempts'[u] = IF u = t THEN attempts[t] + 1 ELSE attempts[u]
      BY <1>1, <2>1
    <2>5. pump' \in [Tasks -> Pumps]
      BY <1>1, <2>1 DEF Pumps
    <2> QED BY <1>1, <2>1, <2>2, <2>3, <2>4, <2>5
  <1> QED BY <1>3, <1>4, <1>5 DEF StartedOne

LEMMA LaunchCounted == ASSUME Counted, Launch PROVE Counted'
  <1>1. TypeOK
    BY DEF Counted
  <1>2. /\ pc' \in Points /\ UNCHANGED <<parallel, log, cancel>>
        /\ SameTasks \/ \E t \in Tasks : Ready(t) /\ StartedOne(t)
    BY <1>1, LaunchCases
  <1>3. CASE SameTasks
    BY <1>2, <1>3 DEF SameTasks, session, Counted, TypeOK, Points
  <1>4. ASSUME NEW t \in Tasks, Ready(t), StartedOne(t)
        PROVE  Counted'
    BY <1>2, <1>4, StartCounted DEF Counted, TypeOK, Points, Children, Pumps
  <1> QED BY <1>2, <1>3, <1>4

(* A step of the poll loop: at most the state of one running task changes, *)
(* and one whose session ended well is completed.                          *)
LEMMA PollCases ==
    ASSUME TypeOK, Poll
    PROVE  /\ pc[1] = "poll" /\ pc' \in Points /\ pc'[1] = "poll"
           /\ UNCHANGED <<parallel, attempts, session, log, given, cancel>>
           /\ \/ UNCHANGED <<state, backoff>>
              \/ \E t \in Tasks :
                    /\ state[t] = "running"
                    /\ \/ /\ child[t] = "succeeded"
                          /\ state' = [state EXCEPT ![t] = "completed"] /\ UNCHANGED backoff
                       \/ RetryOrFail(t, attempts[t])
  <1> DEFINE t == Order[pc[2]]
  <1>1. /\ pc[1] = "poll" /\ pc' = <<"poll", pc[2] + 1>> /\ pc[2] <= Len(Order)
        /\ UNCHANGED <<parallel, attempts, session, log, given, cancel>>
    BY DEF Poll
  <1>2. t \in Tasks /\ <<"poll", pc[2] + 1>> \in Points
    BY <1>1, Places
  <1>3. CASE state[t] = "running" /\ child[t] = "succeeded"
    BY <1>1, <1>2, <1>3 DEF Poll
  <1>4. CASE state[t] = "running" /\ child[t] = "died"
    BY <1>1, <1>2, <1>4 DEF Poll
  <1>5. CASE ~(state[t] = "running" /\ child[t] \in {"succeeded", "died"})
    BY <1>1, <1>2, <1>5 DEF Poll
  <1> QED BY <1>3, <1>4, <1>5

LEMMA PollCounted == ASSUME Counted, Poll PROVE Counted'
  <1>1. TypeOK
    BY DEF Counted
  <1>2. /\ pc' \in Points
        /\ UNCHANGED <<parallel, attempts, session, log, given, cancel>>
        /\ \/ UNCHANGED <<state, backoff>>
           \/ \E t \in Tasks :
                 /\ state[t] = "running"
                 /\ \/ /\ child[t] = "succeeded"
                       /\ state' = [state EXCEPT ![t] = "completed"] /\ UNCHANGED backoff
                    \/ RetryOrFail(t, attempts[t])
    BY <1>1, PollCases
  <1>3. /\ state' \in [Tasks -> States] /\ backoff' \subseteq Tasks
        /\ \A u \in Tasks : state'[u] \in Unstarted => attempts[u] < MaxAttempts[u]
    <2>1. CASE UNCHANGED <<state, backoff>>
      BY <2>1 DEF Counted, TypeOK
    <2>2. ASSUME NEW t \in Tasks, state' = [state EXCEPT ![t] = "completed"], UNCHANGED backoff
          PROVE  <1>3!:
      BY <2>2 DEF Counted, TypeOK, States, Terminal, Unstarted
    <2>3. ASSUME NEW t \in Tasks, RetryOrFail(t, attempts[t])
          PROVE  <1>3!:
      <3>1. attempts[t] \in 0 .. MaxAttempts[t]
        BY Attempts
      <3>2. /\ state' \in [Tasks -> States] /\ backoff' \subseteq Tasks
            /\ \A u \in Tasks \ {t} : state'[u] = state[u]
            /\ state'[t] \in Unstarted => attempts[t] < MaxAttempts[t]
        BY <2>3, <3>1, RetryCounted
      <3> QED BY <3>2 DEF Counted
    <2> QED BY <1>2, <2>1, <2>2, <2>3
  <1> QED BY <1>2, <1>3 DEF session, Counted, TypeOK, Points

(* Logs are only made and added to, each by the thread of its attempt.     *)
LEMMA PumpLogs ==
    ASSUME TypeOK, NEW t \in Tasks, PumpStep(t)
    PROVE  /\ DOMAIN log' \subseteq DOMAIN log \cup {LogOf(t)}
           /\ DOMAIN log \subseteq DOMAIN log'
           /\ \A f \in DOMAIN log : f # LogOf(t) => log'[f] = log[f]
           /\ \A f \in DOMAIN log' : log'[f] \in Seq(Lines)
           /\ \A u \in Tasks \ {t} : pump'[u] = pump[u] /\ copied'[u] = copied[u]
           /\ pump' \in [Tasks -> Pumps] /\ copied' \in [Tasks -> Nat]
           /\ lost' \subseteq Tasks /\ lost' \ {t} = lost \ {t} /\ pump[t] # "done"
           /\ UNCHANGED <<parallel, state, attempts, backoff, child, printed, given, cancel, pc>>
  <1>1. /\ \A f \in DOMAIN log : log[f] \in Seq(Lines)
        /\ pump \in [Tasks -> Pumps] /\ copied \in [Tasks -> Nat] /\ lost \subseteq Tasks
        /\ attempts \in [Tasks -> Nat]
    BY DEF TypeOK, Pumps
  <1>2. UNCHANGED <<parallel, state, attempts, backoff, child, printed, given, cancel, pc>>
    BY DEF PumpStep, Rest
  <1>3. CASE OpenLog(t)
    <2>1. << >> \in Seq(Lines)
      BY EmptySeq
    <2> QED BY <1>1, <1>2, <1>3, <2>1 DEF OpenLog, Pumps
  <1>4. CASE NoLog(t) \/ StopReading(t) \/ EndOfOutput(t)
    BY <1>1, <1>2, <1>4 DEF NoLog, StopReading, EndOfOutput, LineAhead, Pumps
  <1>5. CASE Copy(t)
    <2> DEFINE line == <<t, attempts[t], copied[t] + 1>>
    <2>1. line \in Lines
      BY <1>1 DEF Lines
    <2>2. /\ copied' = [copied EXCEPT ![t] = @ + 1] /\ UNCHANGED pump /\ pump[t] # "done"
          /\ \/ log' = [log EXCEPT ![LogOf(t)] = Append(@, line)] /\ UNCHANGED lost
             \/ lost' = lost \cup {t} /\ UNCHANGED log
      BY <1>5 DEF Copy, LineAhead
    <2>3. \A f \in DOMAIN log : Append(log[f], line) \in Seq(Lines)
      BY <1>1, <2>1, AppendProperties
    <2>4. /\ DOMAIN log' = DOMAIN log
          /\ \A f \in DOMAIN log : f # LogOf(t) => log'[f] = log[f]
          /\ \A f \in DOMAIN log' : log'[f] \in Seq(Lines)
      <3> HIDE DEF line
      <3> QED BY <1>1, <2>2, <2>3
    <2> QED BY <1>1, <1>2, <2>2, <2>4
  <1> QED BY <1>3, <1>4, <1>5 DEF PumpStep

LEMMA PumpCounted == ASSUME Counted, NEW t \in Tasks, PumpStep(t) PROVE Counted'
  <1>1. TypeOK
    BY DEF Counted
  <1>2. LogOf(t) \in Logs
    BY DEF LogOf, Logs, Counted, TypeOK
  <1>3. /\ DOMAIN log' \subseteq Logs
        /\ \A f \in DOMAIN log' : log'[f] \in Seq(Lines)
        /\ pump' \in [Tasks -> Pumps] /\ copied' \in [Tasks -> Nat] /\ lost' \subseteq Tasks
        /\ UNCHANGED <<parallel, state, attempts, backoff, child, printed, given, cancel, pc>>
    BY <1>1, <1>2, PumpLogs DEF TypeOK
  <1> QED BY <1>3 DEF Counted, TypeOK, Pumps

LEMMA EndCases ==
    ASSUME EndOfPass
    PROVE  /\ pc' \in Points /\ SameTasks /\ UNCHANGED <<parallel, log, cancel>>
           /\ pc'[1] \in {"top", "launch"} /\ PumpsKeepUp =>
                  \A t \in Tasks : state[t] = "completed" => pump[t] = "done"
  BY DEF EndOfPass, Die, Turn, SameTasks, Points

LEMMA EndCounted == ASSUME Counted, EndOfPass PROVE Counted'
  BY EndCases DEF SameTasks, session, Counted, TypeOK, Points

LEMMA NextCounted == Counted /\ [Next]_vars => Counted'
  <1> SUFFICES ASSUME Counted, [Next]_vars PROVE Counted'
    OBVIOUS
  <1>1. CASE Loop
    BY <1>1, TopCounted, LaunchCounted, PollCounted, EndCounted DEF Loop
  <1>2. CASE CtrlC
    BY <1>2 DEF CtrlC, session, Counted, TypeOK
  <1>3. ASSUME NEW t \in Tasks, Exit(t) PROVE Counted'
    <2>1. child' \in [Tasks -> Children]
      BY <1>3 DEF Exit, Counted, TypeOK, Children
    <2> QED BY <1>3, <2>1 DEF Exit, Rest, Counted, TypeOK, Children
  <1>4. ASSUME NEW t \in Tasks, PrintLine(t) PROVE Counted'
    <2>1. printed' \in [Tasks -> Nat]
      BY <1>4 DEF PrintLine, Counted, TypeOK
    <2> QED BY <1>4, <2>1 DEF PrintLine, Rest, Counted, TypeOK
  <1>5. ASSUME NEW t \in Tasks, PumpStep(t) PROVE Counted'
    BY <1>5, PumpCounted
  <1>6. ASSUME NEW t \in Tasks, RetryDue(t) PROVE Counted'
    BY <1>6 DEF RetryDue, session, Counted, TypeOK
  <1>7. CASE UNCHANGED vars
    BY <1>7 DEF vars, session, Counted, TypeOK
  <1> QED BY <1>1, <1>2, <1>3, <1>4, <1>5, <1>6, <1>7 DEF Next

(* Every state, count, thread, log and quote is one the runner can have,   *)
(* and no task is started more often than its retries allow                 *)
(* (orchestrator.rs: queue_retry).                                          *)
THEOREM TypeCorrect == Spec => []TypeOK
  <1>1. Counted => TypeOK
    BY DEF Counted
  <1> QED BY <1>1, InitCounted, NextCounted, PTL DEF Spec

-----------------------------------------------------------------------------
(* What is quoted.                                                          *)

(* What QuotesWhole says of one quote.                                      *)
Whole(quote) ==
    LET dep == quote.of IN
    IF dep \in lost THEN InOrder(dep, quote.lines)
    ELSE IF quote.cut
    THEN printed[dep] > MaxCaptured /\ quote.lines = FirstLines(dep, MaxCaptured)
    ELSE quote.lines = FirstLines(dep, printed[dep])

(* The log of an attempt whose thread is done, and what is quoted of it.   *)
LEMMA QuotedIsWhole ==
    ASSUME Counted, NEW d \in Tasks, Written(d), pump[d] = "done", OutputOf(d) \in DOMAIN log
    PROVE  Whole(Quoted(d))
  <1> DEFINE lines == log[LogOf(d)]
             quote == Quoted(d)
  <1>1. /\ lines \in Seq(Lines) /\ MaxCaptured \in Nat
        /\ copied[d] \in Nat /\ printed[d] \in Nat /\ copied[d] <= printed[d]
        /\ Holds(d, lines)
        /\ d \notin lost => copied[d] = printed[d]
    BY RunnerAssumption DEF Counted, TypeOK, Written, OutputOf
  <1>2. Len(lines) \in Nat
    BY <1>1, LenProperties
  <1>3. /\ quote.of = d /\ quote.cut = (Len(lines) > MaxCaptured)
        /\ quote.lines = IF Len(lines) > MaxCaptured THEN SubSeq(lines, 1, MaxCaptured) ELSE lines
    BY DEF Quoted, TooLong, OutputOf
  <1>4. CASE d \in lost
    <2>1. SomeOf(d, attempts[d], printed[d], lines)
      BY <1>1, SomeOfMore DEF Holds
    <2>2. Len(lines) > MaxCaptured =>
              SomeOf(d, attempts[d], printed[d], SubSeq(lines, 1, MaxCaptured))
      BY <1>1, <1>2, <2>1, CutSome
    <2>3. SomeOf(d, attempts[d], printed[d], quote.lines)
      BY <1>3, <2>1, <2>2
    <2>4. InOrder(d, quote.lines)
      BY <2>3 DEF SomeOf, InOrder
    <2> QED BY <1>3, <1>4, <2>4 DEF Whole
  <1>5. CASE d \notin lost
    <2>1. lines = AllOf(d, attempts[d], printed[d])
      BY <1>1, <1>5 DEF Holds
    <2>2. Len(lines) = printed[d]
      BY <1>1, <2>1, LenProperties DEF AllOf
    <2>3. Len(lines) > MaxCaptured =>
              SubSeq(lines, 1, MaxCaptured) = AllOf(d, attempts[d], MaxCaptured)
      <3>1. SUFFICES ASSUME Len(lines) > MaxCaptured
                     PROVE  SubSeq(lines, 1, MaxCaptured) = AllOf(d, attempts[d], MaxCaptured)
        OBVIOUS
      <3>2. MaxCaptured \in Nat /\ printed[d] \in Nat /\ MaxCaptured <= printed[d]
        BY <1>1, <2>2, <3>1
      <3>3. SubSeq(AllOf(d, attempts[d], printed[d]), 1, MaxCaptured)
                = AllOf(d, attempts[d], MaxCaptured)
        BY <3>2, CutAll
      <3> HIDE DEF lines
      <3> QED BY <2>1, <3>3
    <2>4. quote.lines = IF quote.cut THEN AllOf(d, attempts[d], MaxCaptured)
                        ELSE AllOf(d, attempts[d], printed[d])
      BY <1>3, <2>1, <2>3
    <2> QED BY <1>3, <1>5, <2>2, <2>4 DEF Whole, AllOf, FirstLines
  <1> QED BY <1>4, <1>5

(* What was quoted stays true while nothing of the dependency changes.     *)
LEMMA WholeKept ==
    ASSUME NEW quote, Whole(quote),
           printed'[quote.of] = printed[quote.of],
           attempts'[quote.of] = attempts[quote.of],
           quote.of \in lost' <=> quote.of \in lost
    PROVE  Whole(quote)'
  BY DEF Whole, InOrder, FirstLines

LEMMA QuotesKept ==
    ASSUME Quoting, UNCHANGED given, Copied \subseteq Copied',
           \A d \in Copied : /\ printed'[d] = printed[d] /\ attempts'[d] = attempts[d]
                             /\ d \in lost' <=> d \in lost
    PROVE  Settled' /\ QuotesWhole'
  <1>1. Settled'
    BY DEF Quoting, Settled
  <1>2. ASSUME NEW t \in Tasks, NEW quote \in given[t] PROVE Whole(quote)'
    <2>1. quote.of \in Copied /\ Whole(quote)
      BY DEF Quoting, Settled, QuotesWhole, Whole
    <2> QED BY <2>1, WholeKept
  <1>3. QuotesWhole'
    BY <1>2 DEF QuotesWhole, Whole
  <1> QED BY <1>1, <1>3

LEMMA WrittenKept ==
    ASSUME NEW t \in Tasks, Written(t),
           pump'[t] = pump[t], attempts'[t] = attempts[t],
           printed'[t] = printed[t], copied'[t] = copied[t],
           t \in lost' <=> t \in lost,
           child'[t] = "alive" => child[t] = "alive",
           LogOf(t) \in DOMAIN log' <=> LogOf(t) \in DOMAIN log,
           LogOf(t) \in DOMAIN log => log'[LogOf(t)] = log[LogOf(t)]
    PROVE  Written(t)'
  <1>1. LogOf(t)' = LogOf(t)
    BY DEF LogOf
  <1> QED BY <1>1 DEF Written, Holds

(* What neither starts a task nor concerns its output.                     *)
SameOutput == UNCHANGED <<attempts, printed, pump, copied, lost, log, given>>
LEMMA StillQuoting ==
    ASSUME Quoting, SameOutput,
           Started' \subseteq Started, Completed \subseteq Completed',
           \A t \in Tasks : child'[t] = "alive" => child[t] = "alive",
           Finished', CopiedFirst'
    PROVE  Quoting'
  <1>1. \A t \in Started' : Written(t)'
    BY WrittenKept DEF Quoting, Started, SameOutput
  <1>2. Copied \subseteq Copied'
    BY DEF Copied, SameOutput
  <1>3. Settled' /\ QuotesWhole'
    BY <1>2, QuotesKept DEF SameOutput
  <1> QED BY <1>1, <1>3 DEF Quoting, Behind, SameOutput

LEMMA InitQuoting == Init => Quoting
  <1> SUFFICES ASSUME Init PROVE Quoting
    OBVIOUS
  <1>1. DOMAIN log = {}
    BY DEF Init
  <1> QED BY <1>1 DEF Init, Quoting, Behind, Started, Completed, Finished, CopiedFirst,
                      Settled, QuotesWhole

LEMMA TopQuoting == ASSUME Quoting, TypeOK, Top PROVE Quoting'
  <1>1. \A t \in Tasks : /\ state'[t] \in {"running", "completed"} => state'[t] = state[t]
                         /\ state[t] = "completed" => state'[t] = "completed"
    BY DEF Top, WithFailures, Aborted, TypeOK, Terminal, Unstarted
  <1>2. \A t \in Tasks : child'[t] = "alive" => child[t] = "alive"
    BY DEF Top, TypeOK
  <1>3. SameOutput /\ pc[1] = "top"
    BY DEF Top, SameOutput
  <1>4. Completed' = Completed /\ Started' \subseteq Started
    BY <1>1 DEF Completed, Started
  <1>5. Finished'
    BY <1>2, <1>4 DEF Quoting, Finished, Completed
  <1>6. CopiedFirst'
    BY <1>3, <1>4 DEF Quoting, CopiedFirst, Copied, SameOutput
  <1> QED BY <1>2, <1>3, <1>4, <1>5, <1>6, StillQuoting

LEMMA StillBehind ==
    ASSUME Counted, Behind, UNCHANGED log,
           NEW t \in Tasks, attempts' = [attempts EXCEPT ![t] = @ + 1]
    PROVE  Behind'
  <1>1. attempts \in [Tasks -> Nat] /\ DOMAIN log \subseteq Logs
    BY DEF Counted, TypeOK
  <1>2. \A u \in Tasks : attempts[u] \in Nat /\ attempts'[u] \in Nat /\ attempts[u] <= attempts'[u]
    BY <1>1
  <1> SUFFICES ASSUME NEW f \in DOMAIN log, NEW u \in Tasks, f[1] = Slug[u]
               PROVE  f[2] <= attempts'[u]
    BY DEF Behind
  <1>3. f[2] \in Nat /\ f[2] <= attempts[u]
    BY <1>1 DEF Behind, Logs
  <1> QED BY <1>2, <1>3

(* The one step that quotes: all it reads from has been copied.            *)
LEMMA SessionQuoting ==
    ASSUME Counted, Quoting, NEW t \in Tasks, Ready(t), LaunchSession(t),
           pc[1] = "launch", UNCHANGED log
    PROVE  Quoting'
  <1>1. /\ state' = [state EXCEPT ![t] = "running"]
        /\ attempts' = [attempts EXCEPT ![t] = @ + 1]
        /\ child' = [child EXCEPT ![t] = "alive"]
        /\ printed' = [printed EXCEPT ![t] = 0]
        /\ pump' = [pump EXCEPT ![t] = "opening"]
        /\ copied' = [copied EXCEPT ![t] = 0]
        /\ lost' = lost \ {t}
        /\ given' = [given EXCEPT ![t] = {Quoted(d) : d \in Quotes[t]}]
        /\ \A d \in Quotes[t] : OutputOf(d) \in DOMAIN log
    BY DEF LaunchSession, Readable
  <1>2. /\ state \in [Tasks -> States] /\ attempts \in [Tasks -> Nat]
        /\ child \in [Tasks -> Children] /\ pump \in [Tasks -> Pumps]
        /\ printed \in [Tasks -> Nat] /\ copied \in [Tasks -> Nat]
        /\ given \in [Tasks -> SUBSET Quote]
    BY DEF Counted, TypeOK, Pumps, Children
  <1>3. state[t] \in Unstarted /\ t \notin Completed /\ t \notin Copied
    BY DEF Ready, Unstarted, Completed, Copied
  <1>4. \A u \in Tasks \ {t} :
            /\ state'[u] = state[u] /\ attempts'[u] = attempts[u] /\ child'[u] = child[u]
            /\ printed'[u] = printed[u] /\ pump'[u] = pump[u] /\ copied'[u] = copied[u]
            /\ u \in lost' <=> u \in lost
    BY <1>1, <1>2
  <1>5. Completed' = Completed /\ Copied' = Copied
    BY <1>1, <1>2, <1>3, <1>4 DEF Completed, Copied
  <1>6. ASSUME NEW d \in Quotes[t]
        PROVE  Quoted(d).of \in Copied /\ Whole(Quoted(d))
    <2>1. d \in Tasks /\ state[d] = "completed"
      BY RunnerAssumption DEF Ready
    <2>2. pump[d] = "done" /\ Written(d) /\ d \in Copied
      BY <2>1 DEF Quoting, CopiedFirst, Started, Completed, Copied
    <2>3. Quoted(d).of = d
      BY DEF Quoted
    <2> QED BY <1>1, <2>1, <2>2, <2>3, QuotedIsWhole
  <1>7. ASSUME NEW u \in Tasks, NEW quote \in given'[u]
        PROVE  quote.of \in Copied /\ Whole(quote)
    <2>1. CASE u = t
      <3>1. PICK d \in Quotes[t] : quote = Quoted(d)
        BY <1>1, <1>2, <1>7, <2>1
      <3> QED BY <1>6, <3>1
    <2>2. CASE u # t
      <3>1. quote \in given[u]
        BY <1>1, <1>2, <1>7, <2>2
      <3> QED BY <3>1 DEF Quoting, Settled, QuotesWhole, Whole
    <2> QED BY <2>1, <2>2
  <1>8. Settled'
    BY <1>5, <1>7 DEF Settled
  <1>9. QuotesWhole'
    <2>1. ASSUME NEW u \in Tasks, NEW quote \in given'[u] PROVE Whole(quote)'
      <3>1. quote.of \in Tasks \ {t} /\ Whole(quote)
        BY <1>3, <1>7, <2>1 DEF Copied, Completed
      <3> QED BY <1>4, <3>1, WholeKept
    <2> QED BY <2>1 DEF QuotesWhole, Whole
  <1>10. Behind'
    BY <1>1, StillBehind DEF Quoting
  <1>11. Written(t)'
    <2>1. /\ attempts'[t] = attempts[t] + 1 /\ pump'[t] = "opening" /\ printed'[t] = 0
          /\ copied'[t] = 0
      BY <1>1, <1>2
    <2>2. LogOf(t)' \notin DOMAIN log
      <3>1. SUFFICES ASSUME <<Slug[t], attempts[t] + 1>> \in DOMAIN log PROVE FALSE
        BY <2>1 DEF LogOf
      <3>2. attempts[t] + 1 <= attempts[t]
        BY <3>1 DEF Quoting, Behind
      <3> QED BY <1>2, <3>2
    <2> QED BY <2>1, <2>2 DEF Written
  <1>12. ASSUME NEW u \in Started', u # t
         PROVE  Written(u)'
    <2>1. u \in Tasks /\ u \in Started
      BY <1>1, <1>4, <1>12 DEF Started
    <2> QED BY <1>4, <1>12, <2>1, WrittenKept DEF Quoting
  <1>13. Finished'
    BY <1>3, <1>4, <1>5 DEF Quoting, Finished, Completed
  <1>14. CopiedFirst'
    BY <1>5 DEF Quoting, CopiedFirst
  <1> QED BY <1>8, <1>9, <1>10, <1>11, <1>12, <1>13, <1>14 DEF Quoting

LEMMA ErrorQuoting ==
    ASSUME Counted, Quoting, NEW t \in Tasks, Ready(t), LaunchError(t),
           pc[1] = "launch", UNCHANGED log, attempts[t] + 1 \in 0 .. MaxAttempts[t]
    PROVE  Quoting'
  <1>1. /\ attempts' = [attempts EXCEPT ![t] = @ + 1]
        /\ RetryOrFail(t, attempts[t] + 1)
        /\ pump' = [pump EXCEPT ![t] = "none"]
        /\ UNCHANGED <<child, printed, copied, lost, given>>
    BY DEF LaunchError
  <1>2. attempts \in [Tasks -> Nat] /\ pump \in [Tasks -> Pumps]
    BY DEF Counted, TypeOK, Pumps
  <1>3. /\ \A u \in Tasks \ {t} : state'[u] = state[u]
        /\ state'[t] \in {"retry_queued", "failed"}
    BY <1>1, RetryCounted
  <1>4. \A u \in Tasks \ {t} : attempts'[u] = attempts[u] /\ pump'[u] = pump[u]
    BY <1>1, <1>2
  <1>5. t \notin Completed /\ t \notin Completed' /\ t \notin Started'
    BY <1>3 DEF Ready, Unstarted, Completed, Started
  <1>6. Completed' = Completed /\ Copied' = Copied /\ Started' \subseteq Started
    BY <1>3, <1>4, <1>5 DEF Completed, Copied, Started
  <1>7. Settled' /\ QuotesWhole'
    BY <1>1, <1>4, <1>5, <1>6, QuotesKept DEF Copied, Completed
  <1>8. Behind'
    BY <1>1, StillBehind DEF Quoting
  <1>9. ASSUME NEW u \in Started'
        PROVE  Written(u)'
    <2>1. u \in Tasks \ {t} /\ u \in Started
      BY <1>5, <1>6 DEF Started
    <2> QED BY <1>1, <1>4, <2>1, WrittenKept DEF Quoting
  <1>10. Finished' /\ CopiedFirst'
    BY <1>1, <1>6 DEF Quoting, Finished, CopiedFirst
  <1> QED BY <1>7, <1>8, <1>9, <1>10 DEF Quoting

LEMMA LaunchQuoting == ASSUME Counted, Quoting, Launch PROVE Quoting'
  <1>1. /\ pc[1] = "launch" /\ UNCHANGED log
        /\ SameTasks \/ \E t \in Tasks : Ready(t) /\ StartedOne(t)
    BY LaunchCases DEF Counted
  <1>2. CASE SameTasks
    <2>1. SameOutput /\ UNCHANGED <<state, child>>
      BY <1>1, <1>2 DEF SameTasks, SameOutput, session
    <2>2. Completed' = Completed /\ Copied' = Copied /\ Started' = Started
      BY <2>1 DEF Completed, Copied, Started, SameOutput
    <2>3. Finished' /\ CopiedFirst'
      BY <1>1, <2>1, <2>2 DEF Quoting, Finished, CopiedFirst
    <2> QED BY <2>1, <2>2, <2>3, StillQuoting
  <1>3. ASSUME NEW t \in Tasks, Ready(t), StartedOne(t)
        PROVE  Quoting'
    <2>1. CASE SkipRemote(t) \/ FailTemplate(t)
      <3>1. SameOutput /\ UNCHANGED child
        BY <1>1, <2>1 DEF SkipRemote, FailTemplate, SameOutput, session
      <3>2. /\ \A u \in Tasks \ {t} : state'[u] = state[u]
            /\ state'[t] \in {"skipped", "failed"}
        BY <2>1 DEF SkipRemote, FailTemplate, Counted, TypeOK
      <3>3. Completed' = Completed /\ Copied' = Copied /\ Started' \subseteq Started
        BY <1>3, <3>1, <3>2 DEF Completed, Copied, Started, SameOutput, Ready, Unstarted
      <3>4. Finished' /\ CopiedFirst'
        BY <1>1, <3>1, <3>3 DEF Quoting, Finished, CopiedFirst
      <3> QED BY <3>1, <3>3, <3>4, StillQuoting
    <2>2. CASE LaunchSession(t)
      BY <1>1, <1>3, <2>2, SessionQuoting
    <2>3. CASE LaunchError(t)
      <3>1. attempts[t] + 1 \in 0 .. MaxAttempts[t]
        BY <1>3, Attempts DEF Ready, Counted
      <3> QED BY <1>1, <1>3, <2>3, <3>1, ErrorQuoting
    <2> QED BY <1>3, <2>1, <2>2, <2>3 DEF StartedOne
  <1> QED BY <1>1, <1>2, <1>3

LEMMA PollQuoting == ASSUME Counted, Quoting, Poll PROVE Quoting'
  <1>1. /\ pc'[1] = "poll" /\ SameOutput /\ UNCHANGED child
        /\ \/ UNCHANGED <<state, backoff>>
           \/ \E t \in Tasks :
                 /\ state[t] = "running"
                 /\ \/ /\ child[t] = "succeeded"
                       /\ state' = [state EXCEPT ![t] = "completed"] /\ UNCHANGED backoff
                    \/ RetryOrFail(t, attempts[t])
    BY PollCases DEF Counted, SameOutput, session
  <1>2. CopiedFirst'
    BY <1>1 DEF CopiedFirst
  <1>3. Started' \subseteq Started /\ Completed \subseteq Completed' /\ Finished'
    <2>1. CASE UNCHANGED <<state, backoff>>
      BY <1>1, <2>1 DEF Started, Completed, Finished, Quoting
    <2>2. ASSUME NEW t \in Tasks, state[t] = "running", child[t] = "succeeded",
                 state' = [state EXCEPT ![t] = "completed"]
          PROVE  <1>3!:
      <3>1. Started' = Started /\ Completed' = Completed \cup {t}
        BY <2>2 DEF Started, Completed, Counted, TypeOK
      <3> QED BY <1>1, <2>2, <3>1 DEF Quoting, Finished, Completed
    <2>3. ASSUME NEW t \in Tasks, state[t] = "running", RetryOrFail(t, attempts[t])
          PROVE  <1>3!:
      <3>1. attempts[t] \in 0 .. MaxAttempts[t]
        BY Attempts
      <3>2. /\ \A u \in Tasks \ {t} : state'[u] = state[u]
            /\ state'[t] \in {"retry_queued", "failed"}
        BY <2>3, <3>1, RetryCounted
      <3>3. Completed' = Completed /\ Started' \subseteq Started
        BY <2>3, <3>2 DEF Started, Completed
      <3> QED BY <1>1, <3>3 DEF Quoting, Finished
    <2> QED BY <1>1, <2>1, <2>2, <2>3
  <1> QED BY <1>1, <1>2, <1>3, StillQuoting

LEMMA PrintQuoting == ASSUME Counted, Quoting, NEW t \in Tasks, PrintLine(t) PROVE Quoting'
  <1>1. /\ child[t] = "alive" /\ printed' = [printed EXCEPT ![t] = @ + 1]
        /\ UNCHANGED <<state, attempts, given, pc, child, pump, copied, lost, log>>
    BY DEF PrintLine, Rest
  <1>2. printed \in [Tasks -> Nat] /\ copied \in [Tasks -> Nat]
    BY DEF Counted, TypeOK
  <1>3. t \notin Completed /\ t \notin Copied
    BY <1>1 DEF Quoting, Finished, Copied
  <1>4. Completed' = Completed /\ Copied' = Copied /\ Started' = Started
    BY <1>1 DEF Completed, Copied, Started
  <1>5. Settled' /\ QuotesWhole'
    BY <1>1, <1>2, <1>3, <1>4, QuotesKept DEF Copied, Completed
  <1>6. ASSUME NEW u \in Started
        PROVE  Written(u)'
    <2>1. u \in Tasks /\ Written(u)
      BY DEF Quoting, Started
    <2>2. CASE u # t
      BY <1>1, <1>2, <2>1, <2>2, WrittenKept
    <2>3. CASE u = t
      <3>1. LogOf(t)' = LogOf(t) /\ printed'[t] = printed[t] + 1 /\ copied[t] <= printed'[t]
        BY <1>1, <1>2, <2>1, <2>3 DEF LogOf, Written
      <3> QED BY <1>1, <2>1, <2>3, <3>1 DEF Written, Holds
    <2> QED BY <2>2, <2>3
  <1>7. Behind' /\ Finished' /\ CopiedFirst'
    BY <1>1, <1>4 DEF Quoting, Behind, Finished, CopiedFirst
  <1> QED BY <1>4, <1>5, <1>6, <1>7 DEF Quoting

(* The thread adds the next line of its attempt to its log, or nothing.    *)
LEMMA PumpWritten ==
    ASSUME Counted, NEW t \in Tasks, Written(t), PumpStep(t)
    PROVE  Written(t)'
  <1>1. /\ LogOf(t)' = LogOf(t) /\ UNCHANGED <<attempts, printed, child>>
        /\ attempts[t] \in Nat /\ copied[t] \in Nat /\ printed[t] \in Nat
        /\ pump \in [Tasks -> Pumps] /\ copied \in [Tasks -> Nat]
        /\ \A f \in DOMAIN log : log[f] \in Seq(Lines)
    BY DEF PumpStep, Rest, LogOf, Counted, TypeOK, Pumps
  <1>2. CASE OpenLog(t)
    <2>1. /\ pump'[t] = "reading" /\ copied'[t] = 0 /\ copied[t] = 0
          /\ LogOf(t) \in DOMAIN log' /\ log'[LogOf(t)] = << >>
      BY <1>1, <1>2 DEF OpenLog, Written
    <2>2. SomeOf(t, attempts[t], 0, << >>) /\ << >> = AllOf(t, attempts[t], 0)
      BY DEF SomeOf, AllOf
    <2> QED BY <1>1, <2>1, <2>2 DEF Written, Holds
  <1>3. CASE NoLog(t)
    BY <1>1, <1>3 DEF NoLog, Written
  <1>4. CASE Copy(t)
    <2> DEFINE lines == log[LogOf(t)]
               line == <<t, attempts[t], copied[t] + 1>>
    <2>1. /\ LogOf(t) \in DOMAIN log /\ Holds(t, lines) /\ lines \in Seq(Lines)
          /\ UNCHANGED pump /\ pump[t] = "reading" /\ copied[t] < printed[t]
          /\ copied'[t] = copied[t] + 1
      BY <1>1, <1>4 DEF Copy, LineAhead, Written
    <2>2. line \in Lines
      BY <1>1 DEF Lines
    <2>3. CASE log' = [log EXCEPT ![LogOf(t)] = Append(@, line)] /\ UNCHANGED lost
      <3>1. LogOf(t) \in DOMAIN log' /\ log'[LogOf(t)] = Append(lines, line)
        BY <2>1, <2>3
      <3>2. SomeOf(t, attempts[t], copied[t] + 1, Append(lines, line))
        BY <1>1, <2>1, <2>2, AppendSome DEF Holds
      <3>3. t \notin lost => Append(lines, line) = AllOf(t, attempts[t], copied[t] + 1)
        BY <1>1, <2>1, <2>2, AppendAll DEF Holds
      <3> QED BY <1>1, <2>1, <2>3, <3>1, <3>2, <3>3 DEF Written, Holds
    <2>4. CASE lost' = lost \cup {t} /\ UNCHANGED log
      <3>1. SomeOf(t, attempts[t], copied[t] + 1, lines)
        BY <1>1, <2>1, SomeOfMore DEF Holds
      <3> QED BY <1>1, <2>1, <2>4, <3>1 DEF Written, Holds
    <2> QED BY <1>4, <2>3, <2>4 DEF Copy
  <1>5. CASE StopReading(t)
    BY <1>1, <1>5 DEF StopReading, Written, Holds
  <1>6. CASE EndOfOutput(t)
    BY <1>1, <1>6 DEF EndOfOutput, Written, Holds
  <1> QED BY <1>2, <1>3, <1>4, <1>5, <1>6 DEF PumpStep

LEMMA PumpQuoting ==
    ASSUME Counted, Quoting, OwnSlugs, NEW t \in Tasks, PumpStep(t)
    PROVE  Quoting'
  <1>1. /\ DOMAIN log' \subseteq DOMAIN log \cup {LogOf(t)}
        /\ DOMAIN log \subseteq DOMAIN log'
        /\ \A f \in DOMAIN log : f # LogOf(t) => log'[f] = log[f]
        /\ \A u \in Tasks \ {t} : pump'[u] = pump[u] /\ copied'[u] = copied[u]
        /\ lost' \ {t} = lost \ {t} /\ pump[t] # "done"
        /\ UNCHANGED <<state, attempts, child, printed, given, pc>>
    BY PumpLogs DEF Counted
  <1>2. attempts \in [Tasks -> Nat]
    BY DEF Counted, TypeOK
  <1>3. ASSUME NEW u \in Tasks, LogOf(u) = LogOf(t) PROVE u = t
    BY <1>3 DEF LogOf, OwnSlugs
  <1>4. Behind'
    <2> SUFFICES ASSUME NEW f \in DOMAIN log', NEW u \in Tasks, f[1] = Slug[u]
                 PROVE  f[2] <= attempts[u]
      BY <1>1 DEF Behind
    <2>1. CASE f = LogOf(t)
      <3>1. u = t /\ f[2] = attempts[u]
        BY <2>1 DEF LogOf, OwnSlugs
      <3> QED BY <1>2, <3>1
    <2>2. CASE f # LogOf(t)
      BY <1>1, <2>2 DEF Quoting, Behind
    <2> QED BY <2>1, <2>2
  <1>5. t \notin Copied /\ Completed' = Completed /\ Started' = Started
    BY <1>1 DEF Copied, Completed, Started
  <1>6. Copied \subseteq Copied'
    BY <1>1, <1>5 DEF Copied, Completed
  <1>7. Settled' /\ QuotesWhole'
    BY <1>1, <1>5, <1>6, QuotesKept
  <1>8. ASSUME NEW u \in Started
        PROVE  Written(u)'
    <2>1. u \in Tasks /\ Written(u)
      BY DEF Quoting, Started
    <2>2. CASE u # t
      <3>1. LogOf(u) # LogOf(t)
        BY <1>3, <2>1, <2>2
      <3> QED BY <1>1, <2>1, <2>2, <3>1, WrittenKept
    <2>3. CASE u = t
      BY <2>1, <2>3, PumpWritten
    <2> QED BY <2>2, <2>3
  <1>9. Finished' /\ CopiedFirst'
    BY <1>1, <1>5, <1>6 DEF Quoting, Finished, CopiedFirst
  <1> QED BY <1>4, <1>5, <1>7, <1>8, <1>9 DEF Quoting

LEMMA NextQuoting ==
    ASSUME OwnSlugs, PumpsKeepUp, Counted, Quoting, [Next]_vars
    PROVE  Quoting'
  <1>1. ASSUME SameOutput, UNCHANGED state, CopiedFirst',
               \A t \in Tasks : child'[t] = "alive" => child[t] = "alive"
        PROVE  Quoting'
    <2>1. Completed' = Completed /\ Started' = Started
      BY <1>1 DEF Completed, Started
    <2>2. Finished'
      BY <1>1, <2>1 DEF Quoting, Finished, Completed
    <2> QED BY <1>1, <2>1, <2>2, StillQuoting
  <1>2. CASE EndOfPass
    <2>1. SameOutput /\ UNCHANGED <<state, child>>
      BY <1>2, EndCases DEF SameTasks, SameOutput, session
    <2>2. CopiedFirst'
      BY <1>2, <2>1, EndCases DEF CopiedFirst, Copied, Completed, SameOutput
    <2> QED BY <1>1, <2>1, <2>2
  <1>3. ASSUME SameOutput, UNCHANGED <<state, pc>>,
               \A t \in Tasks : child'[t] = "alive" => child[t] = "alive"
        PROVE  Quoting'
    <2>1. CopiedFirst'
      BY <1>3 DEF Quoting, CopiedFirst, Copied, Completed, SameOutput
    <2> QED BY <1>1, <1>3, <2>1
  <1>4. CASE CtrlC
    BY <1>3, <1>4 DEF CtrlC, SameOutput, session
  <1>5. ASSUME NEW t \in Tasks, Exit(t) PROVE Quoting'
    <2>1. \A u \in Tasks : child'[u] = "alive" => child[u] = "alive"
      BY <1>5 DEF Exit, Counted, TypeOK
    <2> QED BY <1>3, <1>5, <2>1 DEF Exit, Rest, SameOutput
  <1>6. ASSUME NEW t \in Tasks, RetryDue(t) PROVE Quoting'
    BY <1>3, <1>6 DEF RetryDue, SameOutput, session
  <1>7. ASSUME NEW t \in Tasks, PrintLine(t) \/ PumpStep(t) PROVE Quoting'
    BY <1>7, PrintQuoting, PumpQuoting
  <1>8. CASE UNCHANGED vars
    BY <1>3, <1>8 DEF vars, SameOutput, session
  <1>9. TypeOK
    BY DEF Counted
  <1> QED BY <1>2, <1>4, <1>5, <1>6, <1>7, <1>8, <1>9, TopQuoting, LaunchQuoting, PollQuoting
          DEF Next, Loop

(* Whatever the task file, where file names tell its tasks apart and a log  *)
(* is complete within a poll interval of the exit, what a prompt quotes is  *)
(* what the attempt that completed the dependency printed: all of it, the   *)
(* first 32 KB with a notice, or, where the log lost lines, lines of it in  *)
(* order (orchestrator.rs: expand_prompt_templates, spawn_log_pump).        *)
THEOREM QuotesAreWhole == OwnSlugs /\ PumpsKeepUp /\ Spec => []QuotesWhole
  <1>1. OwnSlugs /\ PumpsKeepUp /\ Counted /\ Quoting /\ [Next]_vars => (Counted /\ Quoting)'
    BY NextCounted, NextQuoting
  <1>2. Quoting => QuotesWhole
    BY DEF Quoting
  <1>3. OwnSlugs /\ PumpsKeepUp => (OwnSlugs /\ PumpsKeepUp)'
    BY DEF OwnSlugs
  <1> QED BY <1>1, <1>2, <1>3, InitCounted, InitQuoting, PTL DEF Spec
=============================================================================
