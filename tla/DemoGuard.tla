------------------------------ MODULE DemoGuard ------------------------------
(***************************************************************************)
(* Admission of browser sessions to /call (call-loop-poc/demoGuard.js and  *)
(* the connection handler of server.js): so many at a now, by address and *)
(* in all, and so many an hour and a day by address.  Addresses on the     *)
(* allowlist pass every limit and count for none: they are left out.       *)
(***************************************************************************)
EXTENDS Naturals, FiniteSets

CONSTANTS Addresses, MaxVisits,  \* bound on connections, numbered as they come
          PerIpConcurrent, GlobalConcurrent, PerIpPerHour, PerIpPerDay,
          HourLong, DayLong, MaxTime  \* in ticks of the clock; bound on it

ASSUME GuardAssumption ==
  /\ {PerIpConcurrent, GlobalConcurrent, PerIpPerHour, PerIpPerDay, MaxTime, MaxVisits} \subseteq Nat
  /\ {HourLong, DayLong} \subseteq Nat \ {0} /\ HourLong <= DayLong

Visits == 1 .. MaxVisits

VARIABLES
  starts,      \* [Addresses -> the sessions of the last day, whose times are listed]
  activeHere,  \* [Addresses -> sessions that are open]
  activeTotal,
  visit,       \* [Visits -> [at, address]]
  began,       \* [Visits -> the time that was put on the list when it was admitted]
  now

guardVars == <<starts, activeHere, activeTotal, visit, began, now>>

GuardInit ==
  /\ starts = [a \in Addresses |-> {}] /\ activeHere = [a \in Addresses |-> 0] /\ activeTotal = 0
  /\ visit = [v \in Visits |-> [at |-> "none", address |-> "none"]]
  /\ began = [v \in Visits |-> 0] /\ now = 1

Within(list, span) == {v \in list : now - began[v] < span}
Recent(a) == Within(starts[a], DayLong)

GuardRefuses(a) ==
  \/ activeTotal >= GlobalConcurrent
  \/ activeHere[a] >= PerIpConcurrent
  \/ Cardinality(Recent(a)) >= PerIpPerDay
  \/ Cardinality(Within(Recent(a), HourLong)) >= PerIpPerHour

\* admit(); a page of another origin is refused before anything is counted
AdmitVisit(v, a) ==
  /\ visit[v].at = "none" /\ \A u \in 1 .. v - 1 : visit[u].at # "none"
  /\ \/ /\ ~ GuardRefuses(a)
        /\ starts' = [starts EXCEPT ![a] = Recent(a) \cup {v}]
        /\ activeHere' = [activeHere EXCEPT ![a] = @ + 1] /\ activeTotal' = activeTotal + 1
        /\ visit' = [visit EXCEPT ![v] = [at |-> "open", address |-> a]]
        /\ began' = [began EXCEPT ![v] = now]
     \/ /\ visit' = [visit EXCEPT ![v] = [at |-> "refused", address |-> a]]
        /\ \/ UNCHANGED starts
           \/ /\ activeTotal < GlobalConcurrent /\ activeHere[a] < PerIpConcurrent /\ GuardRefuses(a)
              /\ starts' = [starts EXCEPT ![a] = Recent(a)]
        /\ UNCHANGED <<activeHere, activeTotal, began>>
  /\ UNCHANGED now

\* the socket's close event: the visitor left, or the cap on a session's length closed it
VisitCloses(v) ==
  /\ visit[v].at = "open"
  /\ visit' = [visit EXCEPT ![v].at = "over"]
  /\ activeHere' = [activeHere EXCEPT ![visit[v].address] = @ - 1] /\ activeTotal' = activeTotal - 1
  /\ UNCHANGED <<starts, began, now>>

Prune == starts' = [a \in Addresses |-> Recent(a)]
PruneStarts ==
  /\ Prune
  /\ UNCHANGED <<activeHere, activeTotal, visit, began, now>>

GuardTick ==
  /\ now < MaxTime /\ now' = now + 1
  /\ UNCHANGED <<starts, activeHere, activeTotal, visit, began>>

GuardNext == \/ PruneStarts \/ GuardTick
             \/ \E v \in Visits : VisitCloses(v) \/ \E a \in Addresses : AdmitVisit(v, a)
GuardSpec == GuardInit /\ [][GuardNext]_guardVars

-----------------------------------------------------------------------------
OpenVisits == {v \in Visits : visit[v].at = "open"}
VisitsFrom(a) == {v \in Visits : visit[v].at \in {"open", "over"} /\ visit[v].address = a}

\* What is counted is what is open, and no more than may be.
GuardCounts ==
  /\ activeTotal = Cardinality(OpenVisits) /\ activeTotal <= GlobalConcurrent
  /\ \A a \in Addresses : activeHere[a] = Cardinality(OpenVisits \cap VisitsFrom(a)) /\ activeHere[a] <= PerIpConcurrent

\* However the clock, the ends of sessions and the pruning fall, no window of an hour or
\* a day has seen more sessions of an address begin than it may.
WindowsHold ==
  \A a \in Addresses, t \in 1 .. MaxTime :
    LET In(span) == {v \in VisitsFrom(a) : began[v] <= t /\ t < began[v] + span}
    IN Cardinality(In(HourLong)) <= PerIpPerHour /\ Cardinality(In(DayLong)) <= PerIpPerDay

\* Where it must come to rest when nobody comes (<>[]): a session that was admitted has
\* ended, as its length is capped, and was taken off the counts.
VisitsEnd == OpenVisits = {} /\ activeTotal = 0

=============================================================================
