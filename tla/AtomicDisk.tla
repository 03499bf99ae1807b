----------------------------- MODULE AtomicDisk -----------------------------
(* What the SCSI layer above the array expects of it: one disk, one request  *)
(* at a time.  A write that is answered in full is there for every later     *)
(* read; a write answered with an error or with fewer bytes than asked may   *)
(* or may not be there, so its block holds one of several values; so does    *)
(* the block of a write that is spoilt, which no answer tells.  A read that  *)
(* is answered in full returns one of the values its blocks may hold.        *)
EXTENDS Naturals

CONSTANTS Block,    \* the blocks of the disk, an interval of numbers
          Value,    \* what a block holds
          NoReq,    \* no request, no answer
          Blank     \* what a block holds at first

VARIABLES content,  \* for each block the set of values it may hold
          req,      \* the request in progress
          reply,    \* the answer to the last request, NoReq while there is none
          spoilt    \* the values whose writes are spoilt

vars == <<content, req, reply, spoilt>>

Range(r) == {b \in Block : r.lo <= b /\ b <= r.hi}

Init ==
  /\ content = [b \in Block |-> {Blank}]
  /\ req = NoReq
  /\ reply = NoReq
  /\ spoilt = {}

\* A request is accepted.  A write may reach its blocks from now on.
Issue(r) ==
  /\ req = NoReq
  /\ req' = r
  /\ reply' = NoReq
  /\ content' = [b \in Block |-> IF r.op = "write" /\ b \in Range(r)
                                 THEN content[b] \cup {r.val} ELSE content[b]]
  /\ UNCHANGED spoilt

\* The write in progress is spoilt: it may be there or not, however answered.
Spoil ==
  /\ req # NoReq /\ req.op = "write"
  /\ spoilt' = spoilt \cup {req.val}
  /\ UNCHANGED <<content, req, reply>>

\* The request is answered in full: the write is done, unless it is spoilt, the
\* read returns data.
Answer(vals) ==
  /\ req # NoReq
  /\ req' = NoReq
  /\ reply' = [full |-> TRUE, vals |-> vals]
  /\ IF req.op = "write"
     THEN content' = [b \in Block |-> IF b \in Range(req) /\ req.val \notin spoilt
                                      THEN {req.val} ELSE content[b]]
     ELSE /\ \A b \in Range(req) : b \in DOMAIN vals /\ vals[b] \in content[b]
          /\ UNCHANGED content
  /\ UNCHANGED spoilt

\* The request is answered with an error, or with fewer bytes than asked.
Refuse ==
  /\ req # NoReq
  /\ req' = NoReq
  /\ reply' = [full |-> FALSE, vals |-> <<>>]
  /\ UNCHANGED <<content, spoilt>>

Next ==
  \/ \E op \in {"read", "write"}, lo \in Block, hi \in Block, v \in Value :
       Issue([op |-> op, lo |-> lo, hi |-> hi, val |-> v])
  \/ Spoil
  \/ Answer(reply'.vals)
  \/ Refuse

Spec == Init /\ [][Next]_vars
=============================================================================
