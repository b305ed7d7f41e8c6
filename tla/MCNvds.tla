------------------------------- MODULE MCNvds -------------------------------
(* Small instances of Nvds for TLC.                                          *)
EXTENDS Nvds, TLC

CONSTANTS k1, k2, k3, s1, s2, m1, b1

\* A middle value takes one data entry and a bulk value two: a bulk value is
\* split over two pages when just two or three entries are left.
DataEntries == [v \in {m1, b1} |-> IF v = m1 THEN 1 ELSE 2]

\* Under a failing supply only small values are stored: an element of several
\* entries may be left half marked, the pages are then loaded wrongly and a
\* later put may overwrite another key: the code does not keep its promise.
\* Two values of one key are overwritten at every step; three keys are needed
\* for a page that is emptied to have an entry to copy.
TheInstances ==
    {[supply |-> "steady", n |-> 3, maxSeq |-> 3,
      puts |-> {<<k1, s1>>, <<k1, b1>>, <<k2, s1>>, <<k2, m1>>}],
     [supply |-> "failing", n |-> 2, maxSeq |-> 2, puts |-> {<<k1, s1>>, <<k1, s2>>}],
     [supply |-> "failing", n |-> 2, maxSeq |-> 2,
      puts |-> {<<k1, s1>>, <<k2, s1>>, <<k3, s1>>}]}
===========================================================================
