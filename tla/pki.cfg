\* Two requests on two clients and two CAs; started ones run on, backfills are repeated.
SPECIFICATION FairSpec
CONSTANTS
  Client = {c1, c2}
  CA = {k1, k2}
  Session = {q1, q2}
  Null = Null
  Absent = Absent
  MaxChange = 3
  MaxFault = 1
INVARIANT PkiLogExact
INVARIANT QuietTrust
\* Nobody has to start a request.
CHECK_DEADLOCK FALSE
PROPERTY EventuallyCertified
