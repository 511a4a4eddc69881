----------------------------- MODULE MCDailyJobs -----------------------------
(* Names for the processes and the users of the run of DailyJobs, a view   *)
(* and a bound.                                                            *)
EXTENDS DailyJobs

CONSTANTS w1, w2, u1

(* The two users are interchangeable: let the first own the listing.       *)
OneOwner == \A l \in Listings : listings[l].owner \in {u1, None}

(* Nothing reads the time of an exchange that is over, nor, once a run has *)
(* died, how old a snapshot is or how long ago a time was agreed; of the   *)
(* latter only whether it was far enough ahead counts; nothing reads logs. *)
Appointment(e) ==
    IF exchanges[e].status = "scheduled"
    THEN <<agenda[e].due, agenda[e].ahead >= Period + Late /\ job.died = 0>>
    ELSE <<>>
Aged(s) == IF s # None /\ job.died > 0 THEN [s EXCEPT !.age = 0] ELSE s

Read ==
    <<listings, requests, exchanges, ratings, handler, stats, job,
      Aged(newest), [p \in Processes |-> Aged(cached[p])],
      [e \in ExchangeIds |-> <<Appointment(e), agenda[e].donor, agenda[e].recipient>>]>>
=============================================================================
