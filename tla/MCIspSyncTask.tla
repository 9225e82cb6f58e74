--------------------------- MODULE MCIspSyncTask ----------------------------
(***************************************************************************)
(* The synchronous tasks checked by TLC.                                   *)
(***************************************************************************)
EXTENDS IspSyncTask

CONSTANTS t1, t2, t3

Ids(a, b, c) == [t \in Task |-> CASE t = t1 -> a [] t = t2 -> b [] t = t3 -> c]

\* One CPU: two tasks of the handler and one of the work queue.
OneCpu ==
  [smp |-> FALSE, signals |-> FALSE, apart |-> TRUE,
   hwirq |-> {t1, t2}, id |-> Ids(1, 2, 1)]

\* The same with one task of the handler and two of the work queue.
OneCpuWork == [OneCpu EXCEPT !.hwirq = {t1}]

\* Two CPUs and two tasks of the work queue.
TwoCpus == [OneCpuWork EXCEPT !.smp = TRUE]

\* Two CPUs and two tasks of the handler: its walk is not safe then.
TwoCpusHw == [OneCpu EXCEPT !.smp = TRUE]

\* Two modules use one id.
SameId == [OneCpuWork EXCEPT !.id = Ids(1, 2, 2)]

\* Signals end waits for the semaphore, on two CPUs.
Signals == [TwoCpus EXCEPT !.signals = TRUE]

\* Any calls meet, also two for one node; the tasks are all of one list, and
\* again two modules use one id.
AnyCalls == [SameId EXCEPT !.apart = FALSE, !.hwirq = {}]

MCEnvironment == {OneCpu, OneCpuWork, TwoCpus, TwoCpusHw, SameId, Signals, AnyCalls}
=============================================================================
