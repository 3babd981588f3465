---------------------------- MODULE AtomicRelease ----------------------------
(* What a deployment transaction promises to whoever looks at the host: while *)
(* no transaction is open, the installed checkout, the image tag `latest' and *)
(* the running container are one release.  A transaction may leave them mixed *)
(* only while it is open, and closing it makes them one release again.        *)
CONSTANTS Releases, None

VARIABLES open, checkout, latest, container

vars == <<open, checkout, latest, container>>

\* One release everywhere.  A missing `latest' is a legal baseline.
Uniform(r) == checkout = r /\ container = r /\ latest \in {r, None}

Init == open = FALSE /\ \E r \in Releases : Uniform(r)

\* Opening a transaction disturbs nothing.
Open == ~open /\ open' = TRUE /\ UNCHANGED <<checkout, latest, container>>

\* Inside a transaction the three parts change one at a time.
Work ==
  /\ open
  /\ \/ checkout' \in Releases /\ UNCHANGED <<latest, container>>
     \/ latest' \in Releases /\ UNCHANGED <<checkout, container>>
     \/ container' \in Releases \cup {None} /\ UNCHANGED <<checkout, latest>>
  /\ UNCHANGED open

\* A transaction closes only on one release.
Close == open /\ (\E r \in Releases : Uniform(r)) /\ open' = FALSE
         /\ UNCHANGED <<checkout, latest, container>>

Next == Open \/ Work \/ Close

Spec == Init /\ [][Next]_vars
=============================================================================
