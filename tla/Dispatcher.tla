----------------------------- MODULE Dispatcher -----------------------------
(***************************************************************************)
(* MICO::SelectDispatcher, the default, and MICO::PollDispatcher           *)
(* (-ORBUsePoll) of orb/dispatch.cc: the loop in which the main thread     *)
(* waits for file events and timers and makes their callbacks.  Callbacks  *)
(* register and remove events and may run the dispatcher again, as         *)
(* ORB::wait(), ORB::perform_work() and ORB::do_shutdown() do.             *)
(*                                                                         *)
(* tevents is a list of differences: a timer is due when its delta and all *)
(* those before it are over.  fevents keeps removed entries while a pass   *)
(* over it is going on in any of the nested runs, marked deleted.          *)
(*                                                                         *)
(* One thread uses the dispatcher, and the clock is not set back.  idle(), *)
(* move() and the destructor are not modelled.                             *)
(***************************************************************************)
EXTENDS Integers, Sequences, FiniteSets, SequencesExt

CONSTANTS
  Cb, Watch, Timer, Owner, Timeout,
  MaxEvents,   \* bound on the length of fevents
  MaxDepth,    \* bound on nested runs
  MaxElapsed,  \* bound on the time between two calls of update_tevents()
  MaxLate,     \* bound on how late a timer is
  NoTimerSleep \* how long it sleeps without timers: a second

ASSUME ConstantsAssumption ==
  /\ Watch \subseteq [cb : Cb, ev : {"Read", "Write"}, fd : Nat]
  /\ Owner \in [Timer -> Cb]
  /\ Timeout \subseteq Nat
  /\ {MaxEvents, MaxDepth, MaxElapsed, MaxLate, NoTimerSleep} \subseteq Nat

VARIABLES
  poll,     \* a PollDispatcher, not a SelectDispatcher
  fevents,  \* file events: the event, deleted, index into pollset (0: none)
  modified, \* modified, has_deleted_fevents
  tevents,  \* timers: id, delta
  elapsed,  \* time since last_update
  fds,      \* curr_rset, curr_wset: pairs of kind and file descriptor
  pollset,  \* entries: kind, file descriptor, and whether revents has it
  rebuild,  \* must_rebuild_pollset
  sleep,    \* time left of the call of select() or poll()
  runs      \* the calls of run(), the innermost last

vars == <<poll, fevents, modified, tevents, elapsed, fds, pollset, rebuild, sleep, runs>>
fileVars == <<fevents, modified, fds, pollset, rebuild>>
timeVars == <<tevents, elapsed>>

Kind(w) == <<w.ev, w.fd>>
Fd      == {Kind(w) : w \in Watch}

FileEvent  == [w : Watch, deleted : BOOLEAN, idx : 0..MaxEvents]
TimerEvent == [id : Timer, delta : Int]

\* in run(): waiting in select() or poll(), at entry pos of fevents or in its
\* callback, at the first timer or in a timer's callback
Fresh  == [at : {"wait", "files", "timers"}, pos : 1..(MaxEvents + 1), ready : SUBSET Fd]
Called == [at : {"files", "file", "timers", "timer"}, pos : 1..(MaxEvents + 1),
           ready : SUBSET Fd, call : Watch \cup Timer]
Run    == Fresh \cup Called

TypeOK ==
  /\ poll \in BOOLEAN /\ modified \in BOOLEAN /\ rebuild \in BOOLEAN
  /\ fevents \in Seq(FileEvent) /\ Len(fevents) <= MaxEvents
  /\ tevents \in Seq(TimerEvent)
  /\ \A i, j \in DOMAIN tevents : tevents[i].id = tevents[j].id => i = j
  /\ elapsed \in 0..MaxElapsed
  /\ fds \subseteq Fd
  /\ pollset \in Seq([fd : Fd, hit : BOOLEAN])
  /\ sleep \in Nat
  /\ runs \in Seq(Run) /\ Len(runs) <= MaxDepth

Init ==
  /\ poll \in BOOLEAN
  /\ fevents = <<>> /\ modified = FALSE /\ rebuild = TRUE
  /\ tevents = <<>> /\ elapsed = 0
  /\ fds = {} /\ pollset = <<>>
  /\ sleep = 0 /\ runs = <<>>

(***************************************************************************)
(* Helpers.                                                                *)
(***************************************************************************)

Top == Last(runs)
SetTop(r) == runs' = [runs EXCEPT ![Len(runs)] = r]
At(l) == runs # <<>> /\ Top.at = l

\* code outside the dispatcher is running: its caller or a callback
InUser == runs = <<>> \/ At("file") \/ At("timer")

\* the passes over fevents that are going on
locked == Cardinality({i \in DOMAIN runs : runs[i].at \in {"files", "file"}})

\* how many of the positions K of a list come up to position i, the r-th of
\* them, and the list when nothing else is left of it
Rank(K, i) == Cardinality({j \in K : j <= i})
Nth(K, r)  == CHOOSE i \in K : Rank(K, i) = r
Keep(s, K) == [r \in 1..Cardinality(K) |-> s[Nth(K, r)]]

\* the time of a timer is the sum of its delta and those before it
Delta(ts, i) ==
  LET sum[j \in 0..i] == IF j = 0 THEN 0 ELSE sum[j - 1] + ts[j].delta IN sum[i]

\* mutant: the front is not brought up to date
update_tevents_Never == tevents

\* the list after update_tevents(), which also resets elapsed
update_tevents ==
  IF tevents = <<>> THEN tevents ELSE [tevents EXCEPT ![1].delta = @ - elapsed]

\* the entries that are not deleted
Live(fe) == {i \in DOMAIN fe : ~fe[i].deleted}

\* update_fevents()
Watched(fe) == {Kind(fe[i].w) : i \in Live(fe)}

\* the list is touched: update_fevents() of one, a flag in the other
FilesChanged(fe) ==
  IF poll THEN rebuild' = TRUE /\ UNCHANGED <<fds, modified>>
          ELSE fds' = Watched(fe) /\ modified' = TRUE /\ UNCHANGED rebuild

(***************************************************************************)
(* What the callers do.                                                    *)
(***************************************************************************)

\* rd_event(), wr_event(); nobody registers the same event twice
file_event(w) ==
  /\ InUser /\ Len(fevents) < MaxEvents
  /\ \A i \in DOMAIN fevents : fevents[i].w = w => fevents[i].deleted
  /\ fevents' = Append(fevents, [w |-> w, deleted |-> FALSE, idx |-> 0])
  /\ FilesChanged(fevents')
  /\ UNCHANGED <<poll, timeVars, pollset, sleep, runs>>

\* the list ts with a new timer: it goes before the first one that is later
Insert(ts, t, n) ==
  LET before == {i \in DOMAIN ts : \A j \in 1..i : Delta(ts, j) <= n}
      k      == Cardinality(before)
      left   == n - Delta(ts, k)
  IN  SubSeq(ts, 1, k) \o <<[id |-> t, delta |-> left]>> \o
      [i \in 1..(Len(ts) - k) |->
         [ts[k + i] EXCEPT !.delta = IF i = 1 THEN @ - left ELSE @]]

tm_event(t, n) ==
  /\ InUser /\ \A i \in DOMAIN tevents : tevents[i].id # t
  /\ tevents' = Insert(update_tevents, t, n) /\ elapsed' = 0
  /\ UNCHANGED <<poll, fileVars, sleep, runs>>

Others(cb) == {i \in DOMAIN tevents : Owner[tevents[i].id] # cb}

\* mutant: the time of a removed timer is lost
WithoutTimers_Lost(cb) == Keep(tevents, Others(cb))

\* tevents without the timers of cb, whose deltas go to the next ones
WithoutTimers(cb) ==
  LET time(r) == IF r = 0 THEN 0 ELSE Delta(tevents, Nth(Others(cb), r))
  IN  [r \in 1..Cardinality(Others(cb)) |->
         [tevents[Nth(Others(cb), r)] EXCEPT !.delta = time(r) - time(r - 1)]]

Removed(cb, kinds, e) == e.w.cb = cb /\ e.w.ev \in kinds

Unremoved(cb, kinds) == {i \in DOMAIN fevents : ~Removed(cb, kinds, fevents[i])}

\* mutant: entries are erased during a pass
WithoutFiles_Erase(cb, kinds) == Keep(fevents, Unremoved(cb, kinds))

\* fevents without the events of cb
WithoutFiles(cb, kinds) ==
  IF locked > 0
    THEN [i \in DOMAIN fevents |->
            [fevents[i] EXCEPT !.deleted = @ \/ Removed(cb, kinds, fevents[i])]]
    ELSE Keep(fevents, Unremoved(cb, kinds))

\* remove(cb, e), where All stands for all three kinds
remove(cb, kinds) ==
  /\ InUser
  /\ tevents' = IF "Timer" \in kinds THEN WithoutTimers(cb) ELSE tevents
  /\ fevents' = WithoutFiles(cb, kinds)
  /\ LET found == \E i \in DOMAIN fevents : Removed(cb, kinds, fevents[i]) IN
     IF poll
       THEN /\ rebuild' = (rebuild \/ found)
            /\ modified' = (modified \/ (found /\ locked > 0))
            /\ UNCHANGED fds
       ELSE IF kinds = {"Timer"} THEN UNCHANGED <<fds, modified, rebuild>>
                                 ELSE FilesChanged(fevents')
  /\ UNCHANGED <<poll, elapsed, pollset, sleep, runs>>

Return ==
  /\ runs # <<>> /\ InUser
  /\ SetTop(IF Top.at = "file" THEN [Top EXCEPT !.at = "files", !.pos = @ + 1]
                               ELSE [Top EXCEPT !.at = "timers"])
  /\ UNCHANGED <<poll, fileVars, timeVars, sleep>>

(***************************************************************************)
(* One turn of run().                                                      *)
(***************************************************************************)

\* mutant: a late timer makes it negative
sleeptime_Negative(ts) == IF ts = <<>> THEN NoTimerSleep ELSE ts[1].delta

sleeptime(ts) ==
  IF ts = <<>> THEN NoTimerSleep ELSE IF ts[1].delta > 0 THEN ts[1].delta ELSE 0

\* the pollset of what is registered
NewPollset ==
  [r \in 1..Cardinality(Live(fevents)) |->
     [fd |-> Kind(fevents[Nth(Live(fevents), r)].w), hit |-> FALSE]]

\* mutant: the index counts deleted entries
build_pollset_Place ==
  IF ~poll \/ ~rebuild THEN UNCHANGED <<fevents, pollset, rebuild>>
  ELSE /\ fevents' = [i \in DOMAIN fevents |->
            IF fevents[i].deleted THEN fevents[i] ELSE [fevents[i] EXCEPT !.idx = i]]
       /\ pollset' = NewPollset
       /\ rebuild' = FALSE

\* build_pollset(): entries that are not deleted get their index
build_pollset ==
  IF ~poll \/ ~rebuild THEN UNCHANGED <<fevents, pollset, rebuild>>
  ELSE /\ fevents' = [i \in DOMAIN fevents |->
            IF fevents[i].deleted THEN fevents[i]
            ELSE [fevents[i] EXCEPT !.idx = Rank(Live(fevents), i)]]
       /\ pollset' = NewPollset
       /\ rebuild' = FALSE

\* run() up to the call of select() or poll()
run ==
  /\ InUser /\ Len(runs) < MaxDepth
  /\ build_pollset
  /\ tevents' = update_tevents /\ elapsed' = 0
  /\ sleep' = sleeptime(tevents')
  /\ runs' = Append(runs, [at |-> "wait", pos |-> 1, ready |-> {}])
  /\ UNCHANGED <<poll, modified, fds>>

\* the descriptors of hits are ready: handle_fevents() with its lock()
Ready(hits) ==
  /\ At("wait") /\ hits # {}
  /\ IF poll THEN /\ hits \subseteq {pollset[i].fd : i \in DOMAIN pollset}
                  /\ pollset' = [i \in DOMAIN pollset |->
                                  [pollset[i] EXCEPT !.hit = pollset[i].fd \in hits]]
                  /\ UNCHANGED modified
             ELSE /\ hits \subseteq fds
                  /\ modified' = (modified /\ locked > 0)
                  /\ UNCHANGED pollset
  /\ SetTop([Top EXCEPT !.at = "files", !.ready = IF poll THEN {} ELSE hits])
  /\ sleep' = 0
  /\ UNCHANGED <<poll, fevents, fds, rebuild, timeVars>>

\* the time is over
TimeUp ==
  /\ At("wait") /\ sleep = 0
  /\ pollset' = [i \in DOMAIN pollset |-> [pollset[i] EXCEPT !.hit = FALSE]]
  /\ SetTop([Top EXCEPT !.at = "timers"])
  /\ UNCHANGED <<poll, fevents, modified, fds, rebuild, timeVars, sleep>>

\* a signal: nobody knows what the call left in revents
Interrupted ==
  /\ At("wait")
  /\ \E hits \in SUBSET DOMAIN pollset :
       pollset' = [i \in DOMAIN pollset |-> [pollset[i] EXCEPT !.hit = i \in hits]]
  /\ SetTop([Top EXCEPT !.at = "timers"])
  /\ sleep' = 0
  /\ UNCHANGED <<poll, fevents, modified, fds, rebuild, timeVars>>

\* handle_fevents() makes the callback of this entry
Hit(e) ==
  /\ ~e.deleted
  /\ IF poll THEN e.idx \in DOMAIN pollset /\ pollset[e.idx].hit ELSE Kind(e.w) \in Top.ready

\* the pass goes on to the next callback
CallFile ==
  /\ At("files")
  /\ \E i \in Top.pos..Len(fevents) :
       /\ Hit(fevents[i]) /\ \A j \in Top.pos..(i - 1) : ~Hit(fevents[j])
       /\ SetTop([at |-> "file", pos |-> i, ready |-> Top.ready, call |-> fevents[i].w])
  /\ UNCHANGED <<poll, fileVars, timeVars, sleep>>

\* unlock(): the last pass erases the deleted entries
unlock ==
  IF locked = 1 /\ modified
    THEN /\ fevents' = Keep(fevents, Live(fevents))
         /\ modified' = IF poll THEN FALSE ELSE modified
    ELSE UNCHANGED <<fevents, modified>>

FilesDone ==
  /\ At("files") /\ \A i \in Top.pos..Len(fevents) : ~Hit(fevents[i])
  /\ unlock
  /\ SetTop([at |-> "timers", pos |-> 1, ready |-> {}])
  /\ UNCHANGED <<poll, fds, pollset, rebuild, timeVars, sleep>>

\* handle_tevents(): the first timer is over
CallTimer ==
  /\ At("timers") /\ tevents # <<>> /\ update_tevents[1].delta <= 0
  /\ LET ts == update_tevents IN
     /\ tevents' = [i \in 1..(Len(ts) - 1) |->
          [ts[i + 1] EXCEPT !.delta = IF i = 1 THEN @ + ts[1].delta ELSE @]]
     /\ SetTop([at |-> "timer", pos |-> 1, ready |-> {}, call |-> ts[1].id])
  /\ elapsed' = 0
  /\ UNCHANGED <<poll, fileVars, sleep>>

\* no timer is over; run() returns
RunEnd ==
  /\ At("timers") /\ (tevents # <<>> => update_tevents[1].delta > 0)
  /\ tevents' = update_tevents /\ elapsed' = 0
  /\ runs' = Front(runs)
  /\ rebuild' = (rebuild \/ (poll /\ locked > 0))
  /\ UNCHANGED <<poll, fevents, modified, fds, pollset, sleep>>

(***************************************************************************)
(* Time, the specification.                                                *)
(***************************************************************************)

\* the time left to each timer that is set
due == LET At1(t) == CHOOSE i \in DOMAIN tevents : tevents[i].id = t
       IN  [t \in {tevents[i].id : i \in DOMAIN tevents} |-> Delta(tevents, At1(t)) - elapsed]

\* the bounds stop the clock, never the thread
Tick ==
  /\ At("wait") => sleep > 0
  /\ \A t \in DOMAIN due : due[t] > -MaxLate
  /\ IF tevents = <<>> THEN UNCHANGED elapsed
                        ELSE elapsed < MaxElapsed /\ elapsed' = elapsed + 1
  /\ sleep' = IF At("wait") THEN sleep - 1 ELSE sleep
  /\ UNCHANGED <<poll, fileVars, tevents, runs>>

\* the runs that make a callback: all but the innermost always do
Calling == IF runs # <<>> /\ ~InUser THEN Front(runs) ELSE runs

E == INSTANCE EventLoop WITH
       watched <- {fevents[i].w : i \in Live(fevents)},
       calls   <- [i \in DOMAIN Calling |-> Calling[i].call]

Turn == TimeUp \/ CallFile \/ FilesDone \/ CallTimer \/ RunEnd

Next ==
  \/ \E w \in Watch : file_event(w)
  \/ \E t \in Timer, n \in Timeout : tm_event(t, n)
  \/ \E cb \in Cb, kinds \in E!Kinds : remove(cb, kinds)
  \/ run \/ Return \/ Turn \/ Interrupted \/ Tick
  \/ \E hits \in SUBSET Fd : Ready(hits)

\* ORB::run() runs the dispatcher again and again, callbacks return, time passes
Fairness ==
  /\ WF_vars(Turn) /\ WF_vars(Return) /\ WF_vars(runs = <<>> /\ run)
  /\ SF_vars(Tick)

Spec == Init /\ [][Next]_vars /\ Fairness

(***************************************************************************)
(* Properties.                                                             *)
(***************************************************************************)

\* Whatever callbacks register, remove or run: they are made for what is
\* registered at that moment, timers neither early nor out of order.
ImplementsEventLoop == E!Spec

\* A pass over fevents always finds the entry it stands on where it was, also
\* when a callback or a nested run removes entries ...
IteratorsStay ==
  \A i \in DOMAIN runs : runs[i].at = "file" =>
    runs[i].pos \in DOMAIN fevents /\ fevents[runs[i].pos].w = runs[i].call

\* ... and between passes no removed entry is left.
DeletedErased == locked = 0 => \A i \in DOMAIN fevents : ~fevents[i].deleted

\* Removal during a pass neither moves the pass nor is forgotten after it.
RemovalSafe == IteratorsStay /\ DeletedErased

\* An index into pollset leads to the entry of the same event, although nested
\* runs build it anew ...
PollsetMatches ==
  poll => \A i \in DOMAIN fevents : ~fevents[i].deleted /\ fevents[i].idx # 0 =>
    /\ fevents[i].idx \in DOMAIN pollset
    /\ pollset[fevents[i].idx].fd = Kind(fevents[i].w)

\* ... and select() and poll() are never asked to sleep past a timer.
NoOversleep ==
  At("wait") => \A t \in DOMAIN due : sleep <= IF due[t] > 0 THEN due[t] ELSE 0

\* What the dispatcher sleeps on belongs to what is registered.
SleepMatches == PollsetMatches /\ NoOversleep

\* A timer that is set is called in the end, unless it is removed.
TimersFire == \A t \in Timer : (t \in DOMAIN due) ~> (t \notin DOMAIN due)
=============================================================================
