-------------------------------- MODULE Dram --------------------------------
(***************************************************************************)
(* The simple DRAM model (src/dram/simple.cc): it holds no data, it tells  *)
(* when an access ends.  Energy and statistics are left out.               *)
(***************************************************************************)
EXTENDS Integers, Sequences

CONSTANTS
  PageLatency,    \* of one DRAM page: tRP + tRAS and the transfer
  RefreshPeriod,  \* REFRESH_PERIOD
  RefreshLatency  \* tRFC

ASSUME DramAssumption ==
  /\ PageLatency \in Nat \ {0} /\ RefreshPeriod \in Nat \ {0} /\ RefreshLatency \in Nat

VARIABLES
  lastDRAMAccess,  \* when the last scheduled access, or refresh, ends
  accesses         \* ghost: [first, last, pages, scheduled] of each access

dramVars == <<lastDRAMAccess, accesses>>

\* Mutant of updateDelay: the time is taken from the arrival, not from the begin.
updateDelayFromArrival(last, latency, tick, scheduling) ==
  LET begin == IF scheduling /\ last > tick THEN last ELSE tick
      end == IF tick = 0 THEN 0 ELSE tick + latency
  IN  [begin |-> begin, tick |-> end, last |-> IF scheduling /\ tick > 0 THEN end ELSE last]

\* updateDelay(): when an access begins and ends, and what lastDRAMAccess is
\* then.  An access at tick 0, while the simulation is set up, takes no time; one
\* that is not scheduled takes its time, but not from others.
updateDelay(last, latency, tick, scheduling) ==
  LET begin == IF tick > 0 /\ scheduling /\ last > tick THEN last ELSE tick
      end == IF tick > 0 THEN begin + latency ELSE 0
  IN  [begin |-> begin, tick |-> end, last |-> IF scheduling /\ tick > 0 THEN end ELSE last]

\* read() and write() of some pages, on d = [tick, last, accesses].
Access(d, pages, scheduling) ==
  LET r == updateDelay(d.last, pages * PageLatency, d.tick, scheduling)
  IN  [tick |-> r.tick, last |-> r.last,
       accesses |-> IF d.tick = 0 THEN d.accesses
                    ELSE Append(d.accesses, [first |-> r.begin, last |-> r.tick - 1,
                                             pages |-> pages, scheduled |-> scheduling])]

\* autoRefresh: no access begins before the refresh ends.
AutoRefresh(tick) ==
  /\ lastDRAMAccess' = IF lastDRAMAccess < tick + RefreshLatency
                       THEN tick + RefreshLatency ELSE lastDRAMAccess
  /\ UNCHANGED accesses

DramInit == lastDRAMAccess = 0 /\ accesses = <<>>

-----------------------------------------------------------------------------
\* The accesses that are scheduled are served one at a time, and each takes the
\* time of its pages.
DramApart ==
  \A i \in DOMAIN accesses : LET x == accesses[i] IN
    /\ x.last - x.first + 1 = x.pages * PageLatency
    /\ x.scheduled =>
         /\ x.last < lastDRAMAccess
         /\ \A j \in 1 .. i - 1 :
              accesses[j].scheduled => accesses[j].last < x.first
=============================================================================
