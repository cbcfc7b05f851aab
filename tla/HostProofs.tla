---------------------------- MODULE HostProofs -----------------------------
(***************************************************************************)
(* The native hosts.  The registry of the HTTP host, for any number of     *)
(* clients that share it, any number of requests and any replies.          *)
(* The platform store, which keeps what it acknowledged, for any number of *)
(* records, failing writes, restarts and power losses.  And the records of *)
(* wallets over the protected storage of a host, for any number of         *)
(* records, networks, phrases and concurrent calls: a secret that is used  *)
(* is the one of the wallet that was asked for, and with record ids that   *)
(* are used once descriptors and secrets stay in step.                     *)
(***************************************************************************)
EXTENDS HttpHost, DiskHistory, WalletLifecycle, TLAPS

-----------------------------------------------------------------------------
(* The registry of the HTTP host *)

Stage == {"allocated", "connecting", "reading", "done"}

Result == {"none", "ok", "Cancelled", "PolicyViolation", "ResponseTooLarge",
           "Timeout", "ConnectionLost", "Other"}

Call ==
  [request : Inputs, stage : Stage, asked : BOOLEAN, before : BOOLEAN,
   token : BOOLEAN, key : BOOLEAN, reply : SUBSET Replies, chunks : Nat,
   body : Int, result : Result]

\* The constants are what the host is built with: a size for every chunk, and
\* a limit for the body.
Configured ==
  /\ \A reply \in Replies : reply.body \in Seq(Nat)
  /\ MAX_RESPONSE_BODY_BYTES \in Nat
  /\ MaxRequests \in Nat

HostTypes ==
  /\ calls \in [Clients -> Seq(Call)]
  /\ \A c \in Clients : Len(calls[c]) <= MaxRequests
  /\ active \in [Ids -> SUBSET Clients]
  /\ cancelled_before_start \subseteq Ids

\* What holds of one request by itself: nothing is read before the head is
\* accepted, and a result is that of a request that is over.
RequestInv(call) ==
  /\ call.result # "none" => call.stage = "done"
  /\ call.stage = "allocated" => ~call.key
  /\ call.body <= MAX_RESPONSE_BODY_BYTES
  /\ call.result = "ok" => \E reply \in call.reply : call.chunks = Len(reply.body)

\* A request that was cancelled early, given whether its number is listed as
\* cancelled before its start.
HeldBack(call, listed) ==
  /\ call.stage \in {"allocated", "done"} /\ ~call.key
  /\ call.stage = "allocated" => listed

\* What holds of request i of client c among the others: a token that is
\* cancelled was asked for by a client that has the number, and an early
\* cancellation is still listed while the request is not executed, unless
\* another client has the number too.
CallInv(c, i) ==
  /\ RequestInv(calls[c][i])
  /\ calls[c][i].token \/ calls[c][i].result = "Cancelled" => AskedFor(i)
  /\ Alone(c, i) /\ calls[c][i].before =>
       HeldBack(calls[c][i], i \in cancelled_before_start)

\* The inductive invariant.
HostInv ==
  /\ HostTypes
  /\ \A c \in Clients : \A i \in DOMAIN calls[c] : CallInv(c, i)
  /\ \A i \in cancelled_before_start : AskedFor(i)
  /\ RegistryIsLive

\* A request has a number of the host, and the invariant of a request.
LEMMA Numbered ==
  ASSUME HostInv, Configured, NEW c \in Clients, NEW i \in DOMAIN calls[c]
  PROVE  /\ i \in Ids /\ calls[c][i] \in Call
         /\ CallInv(c, i) /\ RequestInv(calls[c][i])
<1>1. i \in 1..Len(calls[c]) /\ Len(calls[c]) <= MaxRequests /\ Len(calls[c]) \in Nat
  BY DEF HostInv, HostTypes
<1>2. i \in Ids
  BY <1>1 DEF Ids, Configured
<1>3. calls[c][i] \in Call
  BY DEF HostInv, HostTypes
<1> QED
  BY <1>2, <1>3, Zenon DEF HostInv, CallInv

\* The requests with number i change, and those with other numbers stay.
Changes(i) ==
  /\ calls' \in [Clients -> Seq(Call)]
  /\ \A d \in Clients : DOMAIN calls'[d] = DOMAIN calls[d] /\ Len(calls'[d]) = Len(calls[d])
  /\ \A d \in Clients : \A j \in DOMAIN calls[d] :
       j # i => calls'[d][j] = calls[d][j]
  /\ \A d \in Clients : i \in DOMAIN calls[d] =>
       (calls[d][i].asked => calls'[d][i].asked)

\* Such a change takes no cancellation back, and leaves the other numbers as
\* they are.
LEMMA OtherNumbers ==
  ASSUME HostInv, NEW i, Changes(i),
         \A j \in Ids \ {i} : j \in cancelled_before_start' <=> j \in cancelled_before_start
  PROVE  /\ \A j : AskedFor(j) => AskedFor(j)'
         /\ \A d \in Clients : \A j \in DOMAIN calls[d] :
              j \in Ids \ {i} => CallInv(d, j)'
<1>1. ASSUME NEW j, AskedFor(j) PROVE AskedFor(j)'
  <2>1. PICK d \in Clients : j \in DOMAIN calls[d] /\ calls[d][j].asked
    BY <1>1, Zenon DEF AskedFor
  <2>2. j \in DOMAIN calls'[d] /\ calls'[d][j].asked
    BY <2>1, Zenon DEF Changes
  <2> QED
    BY <2>2, Zenon DEF AskedFor
<1>2. ASSUME NEW d \in Clients, NEW j \in DOMAIN calls[d], j \in Ids \ {i}
      PROVE  CallInv(d, j)'
  <2>1. CallInv(d, j) /\ calls'[d][j] = calls[d][j]
    BY <1>2, Zenon DEF HostInv, Changes
  <2>2. Alone(d, j)' => Alone(d, j)
    BY Zenon DEF Alone, Changes
  <2>3. j \in cancelled_before_start' <=> j \in cancelled_before_start
    BY <1>2, Zenon
  <2> QED
    BY <1>1, <2>1, <2>2, <2>3, Zenon DEF CallInv, HeldBack
<1> QED
  BY <1>1, <1>2, Zenon

\* A change of the requests with one number keeps the invariant when those
\* requests do, and the registry follows them.
LEMMA ChangeKeeps ==
  ASSUME HostInv, Configured, NEW i \in Ids, Changes(i),
         \A d \in Clients : i \in DOMAIN calls[d] => CallInv(d, i)',
         \A j \in Ids \ {i} : /\ active'[j] = active[j]
                              /\ j \in cancelled_before_start' <=>
                                   j \in cancelled_before_start,
         active' \in [Ids -> SUBSET Clients], cancelled_before_start' \subseteq Ids,
         i \in cancelled_before_start' => AskedFor(i)',
         \A d \in active'[i] : /\ i \in DOMAIN calls[d]
                               /\ calls'[d][i].stage \in {"connecting", "reading"}
  PROVE  HostInv'
<1>1. HostTypes'
  BY Zenon DEF HostInv, HostTypes, Changes, Ids
<1>2. /\ \A j : AskedFor(j) => AskedFor(j)'
      /\ \A d \in Clients : \A j \in DOMAIN calls[d] :
           j \in Ids \ {i} => CallInv(d, j)'
  BY OtherNumbers, Zenon
<1>3. ASSUME NEW d \in Clients, NEW j \in DOMAIN calls'[d] PROVE CallInv(d, j)'
  <2>1. j \in DOMAIN calls[d] /\ j \in Ids
    BY Numbered, Zenon DEF Changes
  <2> QED
    BY <1>2, <2>1, Zenon
<1>4. ASSUME NEW j \in cancelled_before_start' PROVE AskedFor(j)'
  <2>1. CASE j = i
    BY <2>1, Zenon
  <2>2. CASE j # i
    <3>1. j \in cancelled_before_start
      BY <2>2, Zenon
    <3> QED
      BY <1>2, <3>1, Zenon DEF HostInv
  <2> QED
    BY <2>1, <2>2, Zenon
<1>5. RegistryIsLive'
  <2> SUFFICES ASSUME NEW j \in Ids, NEW d \in active'[j]
               PROVE  j \in DOMAIN calls'[d]
                      /\ calls'[d][j].stage \in {"connecting", "reading"}
    BY Zenon DEF RegistryIsLive, Ids
  <2>1. d \in Clients
    BY Zenon
  <2>2. CASE j = i
    BY <2>1, <2>2, Zenon DEF Changes
  <2>3. CASE j # i
    <3>1. d \in active[j] /\ j \in DOMAIN calls[d]
          /\ calls[d][j].stage \in {"connecting", "reading"}
      BY <2>3, Zenon DEF HostInv, RegistryIsLive
    <3> QED
      BY <2>1, <2>3, <3>1, Zenon DEF Changes
  <2> QED
    BY <2>2, <2>3, Zenon
<1> QED
  BY <1>1, <1>3, <1>4, <1>5, Zenon DEF HostInv

\* An assignment to one request changes that request only.
LEMMA Assigned ==
  ASSUME HostTypes, NEW c \in Clients, NEW i \in DOMAIN calls[c], NEW new \in Call,
         calls[c][i].asked => new.asked,
         calls' = [calls EXCEPT ![c][i] = new]
  PROVE  /\ Changes(i) /\ calls'[c][i] = new
         /\ \A d \in Clients \ {c} : calls'[d] = calls[d]
<1>1. calls[c] \in Seq(Call) /\ calls' = [calls EXCEPT ![c] = [calls[c] EXCEPT ![i] = new]]
  BY Zenon DEF HostTypes
<1> DEFINE s == [calls[c] EXCEPT ![i] = new]
<1>2. /\ s \in Seq(Call) /\ Len(s) = Len(calls[c]) /\ DOMAIN s = DOMAIN calls[c]
      /\ s[i] = new /\ \A j \in DOMAIN calls[c] : j # i => s[j] = calls[c][j]
  BY <1>1
<1>3. calls' = [calls EXCEPT ![c] = s]
  BY <1>1, Zenon
<1> HIDE DEF s
<1>4. calls'[c] = s /\ \A d \in Clients \ {c} : calls'[d] = calls[d]
  BY <1>3, Zenon DEF HostTypes
<1>5. calls' \in [Clients -> Seq(Call)]
  BY <1>2, <1>3, Zenon DEF HostTypes
<1>6. ASSUME NEW d \in Clients
      PROVE  /\ DOMAIN calls'[d] = DOMAIN calls[d] /\ Len(calls'[d]) = Len(calls[d])
             /\ \A j \in DOMAIN calls[d] : j # i => calls'[d][j] = calls[d][j]
             /\ i \in DOMAIN calls[d] => (calls[d][i].asked => calls'[d][i].asked)
  <2>1. CASE d = c
    <3>1. calls'[d] = s /\ calls[d] = calls[c]
      BY <1>4, <2>1, Zenon
    <3> QED
      BY <1>2, <3>1, Zenon
  <2>2. CASE d # c
    BY <1>4, <2>2, Zenon
  <2> QED
    BY <2>1, <2>2, Zenon
<1> QED
  BY <1>2, <1>4, <1>5, <1>6, Zenon DEF Changes

\* A change of one request keeps the invariant.  A request of another client
\* with the same number is not alone, so nothing is promised of its early
\* cancellation.
LEMMA OneChange ==
  ASSUME HostInv, Configured, NEW c \in Clients, NEW i \in DOMAIN calls[c], NEW new \in Call,
         calls' = [calls EXCEPT ![c][i] = new],
         calls[c][i].asked => new.asked,
         RequestInv(new),
         new.token \/ new.result = "Cancelled" => new.asked \/ AskedFor(i),
         Alone(c, i) /\ new.before => HeldBack(new, i \in cancelled_before_start'),
         \A j \in Ids \ {i} : /\ active'[j] = active[j]
                              /\ j \in cancelled_before_start' <=>
                                   j \in cancelled_before_start,
         active' \in [Ids -> SUBSET Clients], cancelled_before_start' \subseteq Ids,
         i \in cancelled_before_start' => new.asked \/ AskedFor(i),
         \A d \in active'[i] : \/ d = c /\ new.stage \in {"connecting", "reading"}
                               \/ d # c /\ d \in active[i]
  PROVE  HostInv'
<1>1. /\ Changes(i) /\ calls'[c][i] = new
      /\ \A d \in Clients \ {c} : calls'[d] = calls[d]
  BY Assigned, Zenon DEF HostInv
<1>2. i \in Ids /\ i \in DOMAIN calls'[c]
  BY <1>1, Numbered, Zenon DEF Changes
<1>3. new.asked \/ AskedFor(i) => AskedFor(i)'
  <2>1. new.asked => AskedFor(i)'
    BY <1>1, <1>2, Zenon DEF AskedFor
  <2>2. AskedFor(i) => AskedFor(i)'
    BY <1>1, OtherNumbers, Zenon
  <2> QED
    BY <2>1, <2>2, Zenon
<1>4. CallInv(c, i)'
  <2>1. Alone(c, i)' => Alone(c, i)
    BY <1>1, Zenon DEF Alone
  <2> QED
    BY <1>1, <1>3, <2>1, Zenon DEF CallInv
<1>5. ASSUME NEW d \in Clients \ {c}, i \in DOMAIN calls[d] PROVE CallInv(d, i)'
  <2>1. CallInv(d, i) /\ calls'[d][i] = calls[d][i]
    BY <1>1, <1>5, Zenon DEF HostInv
  <2>2. ~Alone(d, i)'
    BY <1>2, Zenon DEF Alone
  <2> QED
    BY <1>3, <2>1, <2>2, Zenon DEF CallInv
<1>6. ASSUME NEW d \in active'[i]
      PROVE  i \in DOMAIN calls[d] /\ calls'[d][i].stage \in {"connecting", "reading"}
  <2>1. CASE d = c
    BY <1>1, <2>1, Zenon
  <2>2. CASE d # c
    <3>1. d \in active[i] /\ d \in Clients
      BY <1>2, <2>2, Zenon
    <3> QED
      BY <1>1, <1>2, <2>2, <3>1, Zenon DEF HostInv, RegistryIsLive
  <2> QED
    BY <2>1, <2>2, Zenon
<1>7. \A d \in Clients : i \in DOMAIN calls[d] => CallInv(d, i)'
  BY <1>4, <1>5, Zenon
<1>8. i \in cancelled_before_start' => AskedFor(i)'
  BY <1>3, Zenon
<1> QED
  BY <1>1, <1>2, <1>6, <1>7, <1>8, ChangeKeeps, Zenon

\* `finish` and the result: the entry of the number is removed.
LEMMA ReturnKeeps ==
  ASSUME HostInv, Configured, NEW c \in Clients, NEW i \in DOMAIN calls[c],
         NEW result \in Result \ {"none"}, Return(c, i, result),
         calls[c][i].stage \in {"connecting", "reading"},
         result = "Cancelled" => AskedFor(i),
         result = "ok" => \E reply \in calls[c][i].reply :
                             calls[c][i].chunks = Len(reply.body)
  PROVE  HostInv'
<1> DEFINE call == calls[c][i]
           new == Finished(call, result)
<1>1. call \in Call /\ CallInv(c, i) /\ RequestInv(call) /\ i \in Ids
  BY Numbered, Zenon
<1>2. /\ new \in Call /\ new.stage = "done" /\ new.result = result
      /\ new.token = FALSE /\ new.asked = call.asked /\ new.before = call.before
      /\ new.key = call.key /\ new.body = call.body /\ new.reply = call.reply
      /\ new.chunks = call.chunks
  BY <1>1, Zenon DEF Finished, Call, Stage
<1>3. calls' = [calls EXCEPT ![c][i] = new]
  BY Zenon DEF Return, HostInv, HostTypes
<1> HIDE DEF new
<1>4. RequestInv(new)
  BY <1>1, <1>2, Zenon DEF RequestInv
<1>5. ~(Alone(c, i) /\ new.before)
  BY <1>1, <1>2, Zenon DEF CallInv, HeldBack
<1>6. /\ \A j \in Ids \ {i} : active'[j] = active[j]
      /\ active' \in [Ids -> SUBSET Clients] /\ active'[i] = {}
      /\ cancelled_before_start' = cancelled_before_start
  BY <1>1, Zenon DEF Return, finish, HostInv, HostTypes
<1>7. /\ i \in cancelled_before_start' => AskedFor(i)
      /\ cancelled_before_start' \subseteq Ids
  BY <1>6, Zenon DEF HostInv, HostTypes
<1> QED
  BY <1>2, <1>3, <1>4, <1>5, <1>6, <1>7, OneChange, Zenon

\* The client takes the next number.
LEMMA AllocateKeeps ==
  ASSUME HostInv, Configured, NEW c \in Clients, AllocateRequest(c)
  PROVE  HostInv'
<1>1. PICK request \in Inputs :
        calls' = [calls EXCEPT ![c] = Append(calls[c], NewCall(request))]
  BY Zenon DEF AllocateRequest
<1> DEFINE new == NewCall(request)
<1>2. /\ new \in Call /\ new.result = "none" /\ new.stage = "allocated"
      /\ ~new.key /\ ~new.before /\ ~new.token /\ ~new.asked /\ new.body = 0
  <2>1. new \in Call
    <3>1. 0 \in Nat /\ 0 \in Int /\ {} \in SUBSET Replies
      OBVIOUS
    <3>2. "allocated" \in Stage /\ "none" \in Result
      BY Zenon DEF Stage, Result
    <3> QED
      BY <3>1, <3>2, Zenon DEF NewCall, Call
  <2>2. /\ new.result = "none" /\ new.stage = "allocated" /\ new.body = 0
        /\ new.key = FALSE /\ new.before = FALSE /\ new.token = FALSE
        /\ new.asked = FALSE
    BY Zenon DEF NewCall
  <2> QED
    BY <2>1, <2>2, Zenon
<1> HIDE DEF new
<1>3. calls[c] \in Seq(Call) /\ Len(calls[c]) < MaxRequests
  BY Zenon DEF HostInv, HostTypes, AllocateRequest
<1> DEFINE s == Append(calls[c], new)
           n == Len(calls[c]) + 1
<1>4. /\ s \in Seq(Call) /\ Len(s) = n /\ DOMAIN s = DOMAIN calls[c] \cup {n}
      /\ s[n] = new /\ \A j \in DOMAIN calls[c] : s[j] = calls[c][j]
      /\ n \notin DOMAIN calls[c] /\ n <= MaxRequests
  BY <1>2, <1>3 DEF Configured
<1>5. calls' = [calls EXCEPT ![c] = s]
  BY <1>1, Zenon DEF new
<1> HIDE DEF s, n
<1>6. calls'[c] = s /\ \A d \in Clients \ {c} : calls'[d] = calls[d]
  BY <1>5, Zenon DEF HostInv, HostTypes
<1>7. UNCHANGED <<active, cancelled_before_start>>
  BY Zenon DEF AllocateRequest
<1>8. HostTypes'
  <2>1. calls' \in [Clients -> Seq(Call)]
    BY <1>4, <1>5, Zenon DEF HostInv, HostTypes
  <2>2. \A d \in Clients : Len(calls'[d]) <= MaxRequests
    BY <1>4, <1>6, Zenon DEF HostInv, HostTypes
  <2> QED
    BY <1>7, <2>1, <2>2, Zenon DEF HostInv, HostTypes, Ids
<1>9. \A d \in Clients : \A j \in DOMAIN calls[d] :
        j \in DOMAIN calls'[d] /\ calls'[d][j] = calls[d][j]
  BY <1>4, <1>6, Zenon
<1>10. ASSUME NEW j, AskedFor(j) PROVE AskedFor(j)'
  BY <1>9, <1>10, Zenon DEF AskedFor
<1>11. ASSUME NEW d \in Clients, NEW j \in DOMAIN calls'[d] PROVE CallInv(d, j)'
  <2>1. CASE j \in DOMAIN calls[d]
    <3>1. CallInv(d, j) /\ calls'[d][j] = calls[d][j]
      BY <1>9, <2>1, Zenon DEF HostInv
    <3>2. Alone(d, j)' => Alone(d, j)
      BY <1>9, Zenon DEF Alone
    <3> QED
      BY <1>7, <1>10, <3>1, <3>2, Zenon DEF CallInv
  <2>2. CASE j \notin DOMAIN calls[d]
    <3>1. calls'[d][j] = new
      BY <1>4, <1>6, <2>2, Zenon
    <3>2. new.body <= MAX_RESPONSE_BODY_BYTES
      BY <1>2 DEF Configured
    <3> QED
      BY <1>2, <3>1, <3>2, Zenon DEF CallInv, RequestInv
  <2> QED
    BY <2>1, <2>2, Zenon
<1>12. \A j \in cancelled_before_start' : AskedFor(j)'
  BY <1>7, <1>10, Zenon DEF HostInv
<1>13. RegistryIsLive'
  <2> SUFFICES ASSUME NEW j \in Ids, NEW d \in active[j]
               PROVE  j \in DOMAIN calls'[d]
                      /\ calls'[d][j].stage \in {"connecting", "reading"}
    BY <1>7, Zenon DEF RegistryIsLive, Ids
  <2>1. d \in Clients
    BY Zenon DEF HostInv, HostTypes
  <2> QED
    BY <1>9, <2>1, Zenon DEF HostInv, RegistryIsLive
<1> QED
  BY <1>8, <1>11, <1>12, <1>13, Zenon DEF HostInv

\* execute_http up to its first await.
LEMMA ExecuteKeeps ==
  ASSUME HostInv, Configured, NEW c \in Clients, NEW i \in DOMAIN calls[c],
         execute_http(c, i)
  PROVE  HostInv'
<1> DEFINE call == calls[c][i]
<1>1. /\ call.stage = "allocated"
      /\ cancelled_before_start' = cancelled_before_start \ {i}
  BY Zenon DEF execute_http
<1>2. call \in Call /\ CallInv(c, i) /\ RequestInv(call)
  BY Numbered, Zenon
<1>3. i \in Ids /\ cancelled_before_start' \subseteq Ids
  BY <1>1, Numbered, Zenon DEF HostInv, HostTypes
<1>4. /\ i \notin cancelled_before_start'
      /\ \A j \in Ids \ {i} :
           j \in cancelled_before_start' <=> j \in cancelled_before_start
  BY <1>1, Zenon
<1>5. ASSUME NEW result \in {"Cancelled", "PolicyViolation"},
             result = "Cancelled" => i \in cancelled_before_start,
             calls' = [calls EXCEPT ![c][i] = Finished(call, result)],
             UNCHANGED active
      PROVE  HostInv'
  <2> DEFINE new == Finished(call, result)
  <2>1. /\ new \in Call /\ new.stage = "done" /\ new.result = result
        /\ new.token = FALSE /\ new.asked = call.asked
        /\ new.key = call.key /\ new.body = call.body /\ new.before = call.before
    BY <1>2, Zenon DEF Finished, Call, Stage, Result
  <2>2. calls' = [calls EXCEPT ![c][i] = new]
    BY <1>5, Zenon
  <2> HIDE DEF new
  <2>3. RequestInv(new)
    BY <1>1, <1>2, <1>5, <2>1, Zenon DEF RequestInv
  <2>4. new.token \/ new.result = "Cancelled" => AskedFor(i)
    BY <1>5, <2>1, Zenon DEF HostInv
  <2>5. Alone(c, i) /\ new.before => HeldBack(new, i \in cancelled_before_start')
    BY <1>1, <1>2, <2>1, Zenon DEF RequestInv, HeldBack
  <2>6. \A d \in active'[i] : d # c /\ d \in active[i]
    BY <1>1, <1>3, <1>5, Zenon DEF HostInv, RegistryIsLive
  <2>7. active' \in [Ids -> SUBSET Clients] /\ \A j \in Ids : active'[j] = active[j]
    BY <1>5, Zenon DEF HostInv, HostTypes
  <2> QED
    BY <1>3, <1>4, <2>1, <2>2, <2>3, <2>4, <2>5, <2>6, <2>7, OneChange, Zenon
<1>6. ASSUME calls' = [calls EXCEPT ![c][i] =
                [call EXCEPT !.stage = "connecting", !.key = SendsKey(call.request)]],
             active' = [active EXCEPT ![i] = {c}],
             i \notin cancelled_before_start
      PROVE  HostInv'
  <2> DEFINE new == [call EXCEPT !.stage = "connecting", !.key = SendsKey(call.request)]
  <2>1. SendsKey(call.request) \in BOOLEAN
    BY Zenon DEF SendsKey
  <2>2. /\ new \in Call /\ new.stage = "connecting" /\ new.result = call.result
        /\ new.token = call.token /\ new.asked = call.asked /\ new.before = call.before
        /\ new.body = call.body /\ new.reply = call.reply /\ new.chunks = call.chunks
    BY <1>2, <2>1, Zenon DEF Call, Stage
  <2>3. calls' = [calls EXCEPT ![c][i] = new]
    BY <1>6, Zenon
  <2> HIDE DEF new
  <2>4. RequestInv(new)
    BY <1>1, <1>2, <2>2, Zenon DEF RequestInv
  <2>5. /\ new.token \/ new.result = "Cancelled" => AskedFor(i)
        /\ ~(Alone(c, i) /\ new.before)
    BY <1>1, <1>2, <1>6, <2>2, Zenon DEF CallInv, HeldBack
  <2>6. /\ \A j \in Ids \ {i} : active'[j] = active[j]
        /\ active' \in [Ids -> SUBSET Clients] /\ active'[i] = {c}
    BY <1>3, <1>6, Zenon DEF HostInv, HostTypes
  <2>7. \A d \in active'[i] : \/ d = c /\ new.stage \in {"connecting", "reading"}
                              \/ d # c /\ d \in active[i]
    BY <2>2, <2>6, Zenon
  <2>8. \A j \in Ids \ {i} : /\ active'[j] = active[j]
                             /\ j \in cancelled_before_start' <=>
                                  j \in cancelled_before_start
    BY <1>4, <2>6, Zenon
  <2> QED
    BY <1>3, <1>4, <2>2, <2>3, <2>4, <2>5, <2>6, <2>7, <2>8, OneChange, Zenon
<1>7. /\ begin(i) \in {"Cancelled", "PolicyViolation", "none"}
      /\ begin(i) = "Cancelled" <=> i \in cancelled_before_start
  BY Zenon DEF begin
<1>8. CASE begin(i) # "none"
  <2>1. calls' = [calls EXCEPT ![c][i] = Finished(call, begin(i))] /\ UNCHANGED active
    BY <1>8, Zenon DEF execute_http
  <2> QED
    BY <1>5, <1>7, <1>8, <2>1, Zenon
<1>9. CASE begin(i) = "none"
  <2>1. i \notin cancelled_before_start
    BY <1>7, <1>9, Zenon
  <2>2. \/ /\ calls' = [calls EXCEPT ![c][i] = Finished(call, "PolicyViolation")]
           /\ UNCHANGED active
        \/ /\ calls' = [calls EXCEPT ![c][i] =
                 [call EXCEPT !.stage = "connecting", !.key = SendsKey(call.request)]]
           /\ active' = [active EXCEPT ![i] = {c}]
    BY <1>9, Zenon DEF execute_http
  <2> QED
    BY <1>5, <1>6, <2>1, <2>2, Zenon
<1> QED
  BY <1>8, <1>9, Zenon

\* A step of a running request that neither ends it nor touches the registry.
LEMMA ProgressKeeps ==
  ASSUME HostInv, Configured, NEW c \in Clients, NEW i \in DOMAIN calls[c],
         NEW new \in Call, calls' = [calls EXCEPT ![c][i] = new],
         active' = active, cancelled_before_start' = cancelled_before_start,
         calls[c][i].stage \in {"connecting", "reading"}, new.stage = "reading",
         new.result = calls[c][i].result, new.asked = calls[c][i].asked,
         new.before = calls[c][i].before, new.token = calls[c][i].token,
         new.body <= MAX_RESPONSE_BODY_BYTES
  PROVE  HostInv'
<1>1. CallInv(c, i) /\ RequestInv(calls[c][i])
  BY Numbered, Zenon
<1>2. RequestInv(new)
  BY <1>1, Zenon DEF RequestInv
<1>3. /\ new.token \/ new.result = "Cancelled" => AskedFor(i)
      /\ ~(Alone(c, i) /\ new.before)
  BY <1>1, Zenon DEF CallInv, HeldBack
<1>4. /\ active \in [Ids -> SUBSET Clients] /\ cancelled_before_start \subseteq Ids
      /\ i \in cancelled_before_start => AskedFor(i)
  BY Zenon DEF HostInv, HostTypes
<1>5. \A d \in active'[i] : \/ d = c /\ new.stage \in {"connecting", "reading"}
                            \/ d # c /\ d \in active[i]
  BY Zenon
<1> QED
  BY <1>2, <1>3, <1>4, <1>5, OneChange, Zenon

\* The head of a response.
LEMMA HeadKeeps ==
  ASSUME HostInv, Configured, NEW c \in Clients, NEW i \in DOMAIN calls[c],
         HeadArrives(c, i)
  PROVE  HostInv'
<1> DEFINE call == calls[c][i]
<1>1. call \in Call /\ call.stage = "connecting" /\ call.body <= MAX_RESPONSE_BODY_BYTES
  BY Numbered, Zenon DEF HeadArrives, RequestInv
<1>2. PICK reply \in Replies :
        \/ HeadResult(reply) # "none" /\ Return(c, i, HeadResult(reply))
        \/ /\ HeadResult(reply) = "none"
           /\ calls' = [calls EXCEPT ![c][i] =
                          [@ EXCEPT !.stage = "reading", !.reply = {reply}]]
           /\ UNCHANGED <<active, cancelled_before_start>>
  BY Zenon DEF HeadArrives
<1>3. CASE HeadResult(reply) # "none" /\ Return(c, i, HeadResult(reply))
  <2>1. HeadResult(reply) \in {"none", "PolicyViolation", "ResponseTooLarge"}
    BY Zenon DEF HeadResult
  <2>2. HeadResult(reply) \in Result \ {"none", "ok", "Cancelled"}
    BY <1>3, <2>1, Zenon DEF Result
  <2> QED
    BY <1>1, <1>3, <2>2, ReturnKeeps, Zenon
<1>4. CASE /\ calls' = [calls EXCEPT ![c][i] =
                          [@ EXCEPT !.stage = "reading", !.reply = {reply}]]
           /\ UNCHANGED <<active, cancelled_before_start>>
  <2> DEFINE new == [call EXCEPT !.stage = "reading", !.reply = {reply}]
  <2>1. /\ new \in Call /\ new.stage = "reading" /\ new.result = call.result
        /\ new.token = call.token /\ new.asked = call.asked /\ new.before = call.before
        /\ new.body = call.body
    BY <1>1, Zenon DEF Call, Stage
  <2>2. calls' = [calls EXCEPT ![c][i] = new]
    BY <1>4, Zenon
  <2> HIDE DEF new
  <2> QED
    <3>1. active' = active /\ cancelled_before_start' = cancelled_before_start
      BY <1>4, Zenon
    <3>2. /\ call.stage \in {"connecting", "reading"}
          /\ new.body <= MAX_RESPONSE_BODY_BYTES
      BY <1>1, <2>1, Zenon
    <3> QED
      BY <2>1, <2>2, <3>1, <3>2, ProgressKeeps, Zenon
<1> QED
  BY <1>2, <1>3, <1>4, Zenon

\* A chunk of the body, or its end.
LEMMA ChunkKeeps ==
  ASSUME HostInv, Configured, NEW c \in Clients, NEW i \in DOMAIN calls[c],
         ChunkArrives(c, i)
  PROVE  HostInv'
<1> DEFINE call == calls[c][i]
<1>1. call \in Call /\ call.stage = "reading"
  BY Numbered, Zenon DEF ChunkArrives
<1>2. PICK reply \in call.reply :
       \/ call.chunks = Len(reply.body) /\ Return(c, i, "ok")
       \/ Return(c, i, "ResponseTooLarge")
       \/ /\ call.chunks < Len(reply.body)
          /\ call.body + reply.body[call.chunks + 1] <= MAX_RESPONSE_BODY_BYTES
          /\ calls' = [calls EXCEPT ![c][i] =
               [call EXCEPT !.chunks = @ + 1, !.body = @ + reply.body[call.chunks + 1]]]
          /\ UNCHANGED <<active, cancelled_before_start>>
  BY Zenon DEF ChunkArrives
<1>3. "ok" \in Result \ {"none"} /\ "ResponseTooLarge" \in Result \ {"none"}
  BY Zenon DEF Result
<1>4. CASE call.chunks = Len(reply.body) /\ Return(c, i, "ok")
  BY <1>1, <1>3, <1>4, ReturnKeeps, Zenon
<1>5. CASE Return(c, i, "ResponseTooLarge")
  BY <1>1, <1>3, <1>5, ReturnKeeps, Zenon
<1>6. CASE /\ call.chunks < Len(reply.body)
           /\ call.body + reply.body[call.chunks + 1] <= MAX_RESPONSE_BODY_BYTES
           /\ calls' = [calls EXCEPT ![c][i] =
                [call EXCEPT !.chunks = @ + 1, !.body = @ + reply.body[call.chunks + 1]]]
           /\ UNCHANGED <<active, cancelled_before_start>>
  <2> DEFINE size == reply.body[call.chunks + 1]
             new == [call EXCEPT !.chunks = @ + 1, !.body = @ + size]
  <2>1. call.reply \subseteq Replies /\ call.chunks \in Nat
    BY <1>1, Zenon DEF Call
  <2>2. size \in Nat
    <3>1. reply.body \in Seq(Nat)
      BY <2>1, Zenon DEF Configured
    <3>2. call.chunks + 1 \in 1..Len(reply.body)
      BY <1>6, <2>1, <3>1
    <3> QED
      BY <3>1, <3>2
  <2> HIDE DEF size
  <2>3. /\ new \in Call /\ new.stage = "reading" /\ new.result = call.result
        /\ new.token = call.token /\ new.asked = call.asked /\ new.before = call.before
        /\ new.body = call.body + size
    <3>1. call.chunks + 1 \in Nat /\ call.body + size \in Int
      BY <1>1, <2>2 DEF Call
    <3> QED
      BY <1>1, <3>1, Zenon DEF Call, Stage
  <2>4. calls' = [calls EXCEPT ![c][i] = new]
    BY <1>6, Zenon DEF size
  <2>5. call.body + size <= MAX_RESPONSE_BODY_BYTES
    BY <1>6, Zenon DEF size
  <2> HIDE DEF new
  <2> QED
    <3>1. active' = active /\ cancelled_before_start' = cancelled_before_start
      BY <1>6, Zenon
    <3>2. /\ call.stage \in {"connecting", "reading"}
          /\ new.body <= MAX_RESPONSE_BODY_BYTES
      BY <1>1, <2>3, <2>5, Zenon
    <3> QED
      BY <2>3, <2>4, <2>5, <3>1, <3>2, ProgressKeeps, Zenon
<1> QED
  BY <1>2, <1>4, <1>5, <1>6, Zenon

\* The client cancels its request: running, not started, or already over.
LEMMA CancelKeeps ==
  ASSUME HostInv, Configured, NEW c \in Clients, NEW i \in DOMAIN calls[c],
         cancel_http(c, i)
  PROVE  HostInv'
<1> DEFINE call == calls[c][i]
<1>1. /\ i \in Ids /\ call \in Call /\ CallInv(c, i) /\ RequestInv(call)
  BY Numbered, Zenon DEF cancel_http
<1>2. ASSUME NEW owner \in active[i],
             calls' = [d \in Clients |->
                [j \in DOMAIN calls[d] |->
                   [calls[d][j] EXCEPT
                      !.asked = @ \/ <<d, j>> = <<c, i>>,
                      !.before = @ \/ (<<d, j>> = <<c, i>> /\ calls[d][j].stage = "allocated"),
                      !.token = @ \/ <<d, j>> = <<owner, i>>]]],
             active' = [active EXCEPT ![i] = {}],
             UNCHANGED cancelled_before_start
      PROVE  HostInv'
  <2>1. /\ owner \in Clients /\ i \in DOMAIN calls[owner]
        /\ calls[owner][i].stage \in {"connecting", "reading"}
    BY <1>1, Zenon DEF HostInv, HostTypes, RegistryIsLive
  <2> DEFINE rec(d, j) ==
               [calls[d][j] EXCEPT
                  !.asked = @ \/ <<d, j>> = <<c, i>>,
                  !.before = @ \/ (<<d, j>> = <<c, i>> /\ calls[d][j].stage = "allocated"),
                  !.token = @ \/ <<d, j>> = <<owner, i>>]
  <2>2. ASSUME NEW d \in Clients, NEW j \in DOMAIN calls[d]
        PROVE  /\ rec(d, j) \in Call
               /\ j # i => rec(d, j) = calls[d][j]
               /\ rec(d, j).stage = calls[d][j].stage /\ rec(d, j).key = calls[d][j].key
               /\ rec(d, j).result = calls[d][j].result /\ rec(d, j).body = calls[d][j].body
               /\ rec(d, j).reply = calls[d][j].reply /\ rec(d, j).chunks = calls[d][j].chunks
               /\ rec(d, j).asked <=> calls[d][j].asked \/ <<d, j>> = <<c, i>>
               /\ rec(d, j).before =>
                    calls[d][j].before \/ (d = c /\ calls[d][j].stage = "allocated")
    <3>1. calls[d][j] \in Call
      BY Numbered, Zenon
    <3>2. rec(d, j) \in Call
      BY <3>1, Zenon DEF Call
    <3>3. CASE j # i
      <4>1. /\ (calls[d][j].asked \/ <<d, j>> = <<c, i>>) = calls[d][j].asked
            /\ (calls[d][j].before \/ (<<d, j>> = <<c, i>>
                   /\ calls[d][j].stage = "allocated")) = calls[d][j].before
            /\ (calls[d][j].token \/ <<d, j>> = <<owner, i>>) = calls[d][j].token
        BY <3>1, <3>3, Zenon DEF Call
      <4> QED
        BY <3>1, <4>1, Zenon DEF Call
    <3>4. /\ rec(d, j).stage = calls[d][j].stage /\ rec(d, j).key = calls[d][j].key
          /\ rec(d, j).result = calls[d][j].result /\ rec(d, j).body = calls[d][j].body
          /\ rec(d, j).reply = calls[d][j].reply /\ rec(d, j).chunks = calls[d][j].chunks
          /\ rec(d, j).asked = (calls[d][j].asked \/ <<d, j>> = <<c, i>>)
          /\ rec(d, j).before =
               (calls[d][j].before \/ (<<d, j>> = <<c, i>> /\ calls[d][j].stage = "allocated"))
      BY <3>1, Zenon DEF Call
    <3> QED
      BY <3>2, <3>3, <3>4, Zenon
  <2>3. calls' = [d \in Clients |-> [j \in DOMAIN calls[d] |-> rec(d, j)]]
    BY <1>2, Zenon
  <2> HIDE DEF rec
  <2>4. ASSUME NEW d \in Clients
        PROVE  /\ calls'[d] \in Seq(Call) /\ DOMAIN calls'[d] = DOMAIN calls[d]
               /\ Len(calls'[d]) = Len(calls[d])
               /\ \A j \in DOMAIN calls[d] : calls'[d][j] = rec(d, j)
    <3>1. calls'[d] = [j \in 1..Len(calls[d]) |-> rec(d, j)]
          /\ Len(calls[d]) \in Nat /\ DOMAIN calls[d] = 1..Len(calls[d])
      BY <2>3 DEF HostInv, HostTypes
    <3> QED
      BY <2>2, <3>1
  <2>5. Changes(i)
    <3>1. calls' \in [Clients -> Seq(Call)]
      BY <2>3, <2>4, Zenon
    <3>2. ASSUME NEW d \in Clients, i \in DOMAIN calls[d], calls[d][i].asked
          PROVE  calls'[d][i].asked
      <4>1. calls'[d][i] = rec(d, i)
        BY <2>4, <3>2, Zenon
      <4>2. rec(d, i).asked <=> calls[d][i].asked \/ <<d, i>> = <<c, i>>
        BY <2>2, <3>2, Zenon
      <4> QED
        BY <3>2, <4>1, <4>2, Zenon
    <3>3. ASSUME NEW d \in Clients, NEW j \in DOMAIN calls[d], j # i
          PROVE  calls'[d][j] = calls[d][j]
      <4>1. calls'[d][j] = rec(d, j)
        BY <2>4, Zenon
      <4>2. rec(d, j) = calls[d][j]
        BY <2>2, <3>3, Zenon
      <4> QED
        BY <4>1, <4>2, Zenon
    <3>4. \A d \in Clients : DOMAIN calls'[d] = DOMAIN calls[d]
                              /\ Len(calls'[d]) = Len(calls[d])
      BY <2>4, Zenon
    <3> QED
      BY <3>1, <3>2, <3>3, <3>4, Zenon DEF Changes
  <2>6. AskedFor(i)'
    <3>1. i \in DOMAIN calls'[c] /\ calls'[c][i].asked
      BY <2>2, <2>4, Zenon
    <3> QED
      BY <3>1, Zenon DEF AskedFor
  <2>7. ASSUME NEW d \in Clients, i \in DOMAIN calls[d] PROVE CallInv(d, i)'
    <3>1. calls'[d][i] = rec(d, i) /\ CallInv(d, i)
      BY <2>4, <2>7, Zenon DEF HostInv
    <3> DEFINE new == rec(d, i)
               old == calls[d][i]
    <3>2. /\ new.stage = old.stage /\ new.key = old.key /\ new.result = old.result
          /\ new.body = old.body /\ new.reply = old.reply /\ new.chunks = old.chunks
          /\ new.before => old.before \/ (d = c /\ old.stage = "allocated")
      BY <2>2, <2>7, Zenon
    <3> HIDE DEF new
    <3>3. calls'[d][i] = new
      BY <3>1, Zenon DEF new
    <3>4. RequestInv(calls'[d][i])
      BY <3>1, <3>2, <3>3, Zenon DEF CallInv, RequestInv
    <3>5. ~(Alone(d, i)' /\ calls'[d][i].before)
      <4>1. Alone(d, i)' => Alone(d, i) /\ d = owner
        BY <2>1, <2>4, Zenon DEF Alone
      <4>2. CASE d = owner
        <5>1. old.stage \in {"connecting", "reading"}
          BY <2>1, <4>2, Zenon
        <5>2. new.before => old.before
          BY <3>2, <5>1, Zenon
        <5>3. ~(Alone(d, i) /\ old.before)
          BY <3>1, <5>1, Zenon DEF CallInv, HeldBack
        <5> QED
          BY <3>3, <4>1, <5>2, <5>3, Zenon
      <4> QED
        BY <4>1, <4>2, Zenon
    <3> QED
      BY <2>6, <3>4, <3>5, Zenon DEF CallInv
  <2>8. /\ \A j \in Ids \ {i} : active'[j] = active[j]
        /\ active' \in [Ids -> SUBSET Clients] /\ active'[i] = {}
        /\ cancelled_before_start' = cancelled_before_start
        /\ cancelled_before_start' \subseteq Ids
    BY <1>1, <1>2, Zenon DEF HostInv, HostTypes
  <2> QED
    BY <1>1, <2>5, <2>6, <2>7, <2>8, ChangeKeeps, Zenon
<1>3. ASSUME active[i] = {},
             calls' = [calls EXCEPT ![c][i] =
                         [@ EXCEPT !.asked = TRUE,
                                   !.before = calls[c][i].stage = "allocated"]],
             cancelled_before_start' = cancelled_before_start \cup {i},
             UNCHANGED active
      PROVE  HostInv'
  <2> DEFINE new == [call EXCEPT !.asked = TRUE, !.before = call.stage = "allocated"]
  <2>1. /\ new \in Call /\ new.asked = TRUE /\ new.before = (call.stage = "allocated")
        /\ new.stage = call.stage /\ new.key = call.key /\ new.result = call.result
        /\ new.body = call.body /\ new.reply = call.reply /\ new.chunks = call.chunks
    BY <1>1, Zenon DEF Call
  <2>2. calls' = [calls EXCEPT ![c][i] = new]
    BY <1>3, Zenon
  <2> HIDE DEF new
  <2>3. RequestInv(new)
    BY <1>1, <2>1, Zenon DEF RequestInv
  <2>4. new.before => HeldBack(new, i \in cancelled_before_start')
    BY <1>1, <1>3, <2>1, Zenon DEF RequestInv, HeldBack
  <2>5. /\ cancelled_before_start' \subseteq Ids
        /\ \A j \in Ids \ {i} :
             j \in cancelled_before_start' <=> j \in cancelled_before_start
    BY <1>1, <1>3, Zenon DEF HostInv, HostTypes
  <2>6. /\ active' \in [Ids -> SUBSET Clients] /\ active'[i] = {}
        /\ \A j \in Ids : active'[j] = active[j]
    BY <1>3, Zenon DEF HostInv, HostTypes
  <2> QED
    BY <2>1, <2>2, <2>3, <2>4, <2>5, <2>6, OneChange, Zenon
<1> QED
  BY <1>2, <1>3, Zenon DEF cancel_http

\* Every step of the host keeps the invariant.
LEMMA HostStep ==
  ASSUME HostInv, Configured, [HttpNext]_httpVars
  PROVE  HostInv'
<1>1. CASE UNCHANGED httpVars
  BY <1>1, Zenon DEF httpVars, HostInv, HostTypes, RegistryIsLive, Ids, CallInv,
     AskedFor, Alone
<1>2. ASSUME NEW c \in Clients, AllocateRequest(c) PROVE HostInv'
  BY <1>2, AllocateKeeps, Zenon
<1>3. ASSUME NEW c \in Clients, NEW i \in DOMAIN calls[c], TransferFails(c, i)
      PROVE  HostInv'
  <2>1. PICK kind \in {"Timeout", "ConnectionLost", "Other"} : Return(c, i, kind)
    BY <1>3, Zenon DEF TransferFails
  <2>2. kind \in Result \ {"none", "ok", "Cancelled"}
    BY Zenon DEF Result
  <2> QED
    BY <1>3, <2>1, <2>2, ReturnKeeps, Zenon DEF TransferFails
<1>4. ASSUME NEW c \in Clients, NEW i \in DOMAIN calls[c], CancellationSeen(c, i)
      PROVE  HostInv'
  <2>1. AskedFor(i)
    BY <1>4, Numbered, Zenon DEF CancellationSeen, CallInv
  <2>2. "Cancelled" \in Result \ {"none"} /\ "Cancelled" # "ok"
    BY Zenon DEF Result
  <2> QED
    BY <1>4, <2>1, <2>2, ReturnKeeps, Zenon DEF CancellationSeen
<1> QED
  BY <1>1, <1>2, <1>3, <1>4, ExecuteKeeps, HeadKeeps, ChunkKeeps, CancelKeeps, Zenon
  DEF HttpNext

\* Of the requests of any clients that share the host, whatever the replies,
\* their chunks and the order of cancellations (execute_http and cancel_http):
\* one is answered Cancelled only when a client that has its number cancelled it,
\* a cancellation before the start of a number that one client has prevents the
\* sending, an answer is whole and within the limit, and no entry of the registry
\* outlives its request.
THEOREM HostRequests ==
  ASSUME Configured
  PROVE  HttpSpec => []RequestsAreSound
<1>1. HttpInit => HostInv
  <2> SUFFICES ASSUME HttpInit PROVE HostInv
    BY Zenon
  <2>1. HostTypes
    <3>1. <<>> \in Seq(Call) /\ Len(<<>>) = 0
      OBVIOUS
    <3> QED
      BY <3>1 DEF HttpInit, HostTypes, Configured
  <2>2. \A c \in Clients : DOMAIN calls[c] = {}
    BY DEF HttpInit
  <2>3. RegistryIsLive
    BY Zenon DEF HttpInit, RegistryIsLive
  <2> QED
    BY <2>1, <2>2, <2>3, Zenon DEF HttpInit, HostInv
<1>2. HostInv /\ [HttpNext]_httpVars => HostInv'
  BY HostStep, Zenon
<1>3. HostInv => RequestsAreSound
  BY Zenon DEF HostInv, CallInv, RequestInv, HeldBack, RequestsAreSound,
     OnlyAskedCancellation, EarlyCancellationHolds, AnswerIsWhole
<1> QED
  BY <1>1, <1>2, <1>3, PTL DEF HttpSpec

-----------------------------------------------------------------------------
(* The platform store *)

JournalRecord == [version : Nat, content : SUBSET Contents]

StoredState ==
  [wallet : SUBSET Wallets, secrets : SUBSET Wallets,
   journals : [Wallets -> JournalRecord]]

Acknowledged ==
  [wallet : SUBSET SUBSET Wallets, secrets : [Wallets -> SUBSET BOOLEAN],
   journals : [Wallets -> SUBSET JournalRecord]]

\* The memory, the file and the disk are stored states.
StoreTypes ==
  /\ memory \in StoredState /\ file \in StoredState /\ flushed \in StoredState
  /\ told \in Acknowledged

\* The inductive invariant: what was acknowledged is in all three places, so
\* that a write of the whole memory carries the other items over, and it does
\* not matter which of the two states a restart finds.
DiskInv == StoreTypes /\ AcknowledgedIsDurable

\* What a state shows of everything that `heard` acknowledges.
Shows(state, heard) ==
  /\ \A value \in heard.wallet : state.wallet = value
  /\ \A w \in Wallets :
       /\ \A value \in heard.secrets[w] : (w \in state.secrets) = value
       /\ \A value \in heard.journals[w] : state.journals[w] = value

\* The effect of a write: the memory is `state`, the file and the disk are
\* `state` or as before, and all of them when the write is acknowledged; no
\* other item than the written one has a new acknowledgement.
Write(state, outcome, heard) ==
  /\ persist(state, outcome) /\ told' = heard
  /\ state \in StoredState /\ heard \in Acknowledged
  /\ Shows(state, heard)
  /\ outcome # "done" => Shows(file, heard) /\ Shows(flushed, heard)

\* Such a write keeps the invariant.
LEMMA WriteKeeps ==
  ASSUME DiskInv, NEW state, NEW outcome, NEW heard, Write(state, outcome, heard)
  PROVE  DiskInv'
<1>1. StoreTypes'
  BY Zenon DEF DiskInv, StoreTypes, Write, persist
<1>2. Shows(memory', told') /\ Shows(file', told') /\ Shows(flushed', told')
  <2>1. CASE outcome = "done"
    BY <2>1, Zenon DEF Write, persist
  <2>2. CASE outcome # "done"
    BY <2>2, Zenon DEF Write, persist
  <2> QED
    BY <2>1, <2>2, Zenon
<1> QED
  BY <1>1, <1>2, Zenon DEF DiskInv, AcknowledgedIsDurable, Holds, Shows

\* save_wallet and clear_wallet.
LEMMA WalletWrite ==
  ASSUME DiskInv, WriteWallet
  PROVE  DiskInv' /\ UNCHANGED restarts /\ memory'.journals = memory.journals
<1>1. PICK outcome \in Outcomes, value \in SUBSET Wallets :
        /\ UNCHANGED restarts
        /\ persist([memory EXCEPT !.wallet = value], outcome)
        /\ told' = [told EXCEPT !.wallet = Told(value, outcome)]
  BY Zenon DEF WriteWallet, Counted, save_wallet, clear_wallet
<1> DEFINE state == [memory EXCEPT !.wallet = value]
           heard == [told EXCEPT !.wallet = Told(value, outcome)]
<1>2. state \in StoredState /\ heard \in Acknowledged
  BY Zenon DEF DiskInv, StoreTypes, StoredState, Acknowledged, Told
<1>3. /\ state.wallet = value /\ state.secrets = memory.secrets
      /\ state.journals = memory.journals
      /\ heard.wallet = Told(value, outcome) /\ heard.secrets = told.secrets
      /\ heard.journals = told.journals
  BY Zenon DEF DiskInv, StoreTypes, StoredState, Acknowledged
<1>4. persist(state, outcome) /\ told' = heard
  BY <1>1, Zenon
<1> HIDE DEF state, heard
<1>5. /\ Shows(state, heard)
      /\ outcome # "done" => Shows(file, heard) /\ Shows(flushed, heard)
  BY <1>3, Zenon DEF Shows, Told, DiskInv, AcknowledgedIsDurable, Holds
<1>6. DiskInv'
  BY <1>4, <1>2, <1>5, WriteKeeps, Zenon DEF Write
<1> QED
  BY <1>1, <1>4, <1>3, <1>6, Zenon DEF persist

\* store_protected_secret and delete_protected_secret.
LEMMA SecretWrite ==
  ASSUME DiskInv, WriteSecret
  PROVE  DiskInv' /\ UNCHANGED restarts /\ memory'.journals = memory.journals
<1>1. PICK outcome \in Outcomes, w \in Wallets, stored \in BOOLEAN,
           secrets \in SUBSET Wallets :
        /\ UNCHANGED restarts /\ (w \in secrets) = stored
        /\ \A v \in Wallets \ {w} : (v \in secrets) = (v \in memory.secrets)
        /\ persist([memory EXCEPT !.secrets = secrets], outcome)
        /\ told' = [told EXCEPT !.secrets[w] = Told(stored, outcome)]
  <2>1. memory.secrets \subseteq Wallets
    BY Zenon DEF DiskInv, StoreTypes, StoredState
  <2>2. PICK outcome \in Outcomes, w \in Wallets :
          /\ UNCHANGED restarts
          /\ \/ /\ store_protected_secret(w, outcome)
                /\ told' = [told EXCEPT !.secrets[w] = Told(TRUE, outcome)]
             \/ /\ delete_protected_secret(w, outcome)
                /\ told' = [told EXCEPT !.secrets[w] = Told(FALSE, outcome)]
    BY Zenon DEF WriteSecret, Counted
  <2>3. CASE store_protected_secret(w, outcome)
             /\ told' = [told EXCEPT !.secrets[w] = Told(TRUE, outcome)]
    <3>1. /\ memory.secrets \cup {w} \in SUBSET Wallets
          /\ (w \in memory.secrets \cup {w}) = TRUE
          /\ \A v \in Wallets \ {w} :
               (v \in memory.secrets \cup {w}) = (v \in memory.secrets)
      BY <2>1
    <3> QED
      BY <2>2, <2>3, <3>1, Zenon DEF store_protected_secret
  <2>4. CASE delete_protected_secret(w, outcome)
             /\ told' = [told EXCEPT !.secrets[w] = Told(FALSE, outcome)]
    <3>1. /\ memory.secrets \ {w} \in SUBSET Wallets
          /\ (w \in memory.secrets \ {w}) = FALSE
          /\ \A v \in Wallets \ {w} :
               (v \in memory.secrets \ {w}) = (v \in memory.secrets)
      BY <2>1
    <3> QED
      BY <2>2, <2>4, <3>1, Zenon DEF delete_protected_secret
  <2> QED
    BY <2>2, <2>3, <2>4, Zenon
<1> DEFINE state == [memory EXCEPT !.secrets = secrets]
           heard == [told EXCEPT !.secrets[w] = Told(stored, outcome)]
<1>2. state \in StoredState /\ heard \in Acknowledged
  BY Zenon DEF DiskInv, StoreTypes, StoredState, Acknowledged, Told
<1>3. /\ state.wallet = memory.wallet /\ state.secrets = secrets
      /\ state.journals = memory.journals
      /\ heard.wallet = told.wallet /\ heard.journals = told.journals
      /\ heard.secrets = [told.secrets EXCEPT ![w] = Told(stored, outcome)]
  BY Zenon DEF DiskInv, StoreTypes, StoredState, Acknowledged
<1>4. persist(state, outcome) /\ told' = heard
  BY <1>1, Zenon
<1> HIDE DEF state, heard
<1>5. /\ heard.secrets[w] = Told(stored, outcome)
      /\ \A v \in Wallets \ {w} : heard.secrets[v] = told.secrets[v]
  BY <1>3, Zenon DEF DiskInv, StoreTypes, Acknowledged
<1>6. /\ Shows(state, heard)
      /\ outcome # "done" => Shows(file, heard) /\ Shows(flushed, heard)
  <2>1. ASSUME NEW v \in Wallets
        PROVE  /\ \A value \in heard.secrets[v] : (v \in state.secrets) = value
               /\ outcome # "done" => \A value \in heard.secrets[v] :
                    (v \in file.secrets) = value /\ (v \in flushed.secrets) = value
    <3>1. CASE v = w
      BY <1>1, <1>3, <1>5, <3>1, Zenon DEF Told
    <3>2. CASE v # w
      BY <1>1, <1>3, <1>5, <3>2, Zenon DEF DiskInv, AcknowledgedIsDurable, Holds
    <3> QED
      BY <3>1, <3>2, Zenon
  <2> QED
    BY <1>3, <2>1, Zenon DEF Shows, DiskInv, AcknowledgedIsDurable, Holds
<1>7. DiskInv'
  BY <1>4, <1>2, <1>6, WriteKeeps, Zenon DEF Write
<1> QED
  BY <1>1, <1>4, <1>3, <1>7, Zenon DEF persist

\* compare_exchange_journal: a version is replaced by the next one.
LEMMA JournalWrite ==
  ASSUME DiskInv, MaxVersion \in Nat, compare_exchange_journal
  PROVE  DiskInv' /\ VersionsMove
<1>1. PICK w \in Wallets, outcome \in Outcomes, expected \in 0..MaxVersion - 1,
           c \in Contents :
        \/ /\ VersionMatches(w, expected) /\ UNCHANGED restarts
           /\ ReplaceJournal(w, [version |-> expected + 1, content |-> {c}], outcome)
           /\ told' = [told EXCEPT !.journals[w] =
                         Told([version |-> expected + 1, content |-> {c}], outcome)]
        \/ UNCHANGED <<memory, file, flushed, told, restarts>>
  <2>1. PICK w \in Wallets, outcome \in Outcomes, expected \in 0..MaxVersion - 1,
             c \in Contents :
          LET record == [version |-> expected + 1, content |-> {c}] IN
          /\ expected <= seen[w]
          /\ \/ /\ VersionMatches(w, expected)
                /\ ReplaceJournal(w, record, outcome)
                /\ Counted(outcome)
                /\ told' = [told EXCEPT !.journals[w] = Told(record, outcome)]
                /\ seen' = IF outcome = "done"
                           THEN [seen EXCEPT ![w] = record.version] ELSE seen
             \/ /\ ~VersionMatches(w, expected)
                /\ outcome = "done"
                /\ seen' = [seen EXCEPT ![w] = load_journal(w).version]
                /\ UNCHANGED <<memory, file, flushed, told, faults, restarts>>
    BY Zenon DEF compare_exchange_journal
  <2>2. CASE UNCHANGED <<memory, file, flushed, told, faults, restarts>>
    BY <2>2, Zenon
  <2>3. CASE ~UNCHANGED <<memory, file, flushed, told, faults, restarts>>
    BY <2>1, <2>3, Zenon DEF Counted
  <2> QED
    BY <2>2, <2>3, Zenon
<1>2. CASE UNCHANGED <<memory, file, flushed, told, restarts>>
  <2>1. DiskInv'
    BY <1>2, Zenon DEF DiskInv, StoreTypes, AcknowledgedIsDurable, Holds
  <2>2. \A v \in Wallets : memory.journals[v].version \in Nat
    BY Zenon DEF DiskInv, StoreTypes, StoredState, JournalRecord
  <2> QED
    BY <1>2, <2>1, <2>2 DEF VersionsMove
<1>3. CASE ~UNCHANGED <<memory, file, flushed, told, restarts>>
  <2> DEFINE record == [version |-> expected + 1, content |-> {c}]
             state == [memory EXCEPT !.journals[w] = record]
             heard == [told EXCEPT !.journals[w] = Told(record, outcome)]
  <2>1. /\ record \in JournalRecord /\ record.version = expected + 1
        /\ memory.journals[w].version = expected
    BY <1>1, <1>3 DEF JournalRecord, VersionMatches, load_journal
  <2>2. persist(state, outcome) /\ told' = heard
    BY <1>1, <1>3, Zenon DEF ReplaceJournal
  <2> HIDE DEF record
  <2>3. state \in StoredState /\ heard \in Acknowledged
    BY <2>1, Zenon DEF DiskInv, StoreTypes, StoredState, Acknowledged, Told
  <2>4. /\ state.wallet = memory.wallet /\ state.secrets = memory.secrets
        /\ state.journals = [memory.journals EXCEPT ![w] = record]
        /\ heard.wallet = told.wallet /\ heard.secrets = told.secrets
        /\ heard.journals = [told.journals EXCEPT ![w] = Told(record, outcome)]
    BY Zenon DEF DiskInv, StoreTypes, StoredState, Acknowledged
  <2> HIDE DEF state, heard
  <2>5. /\ state.journals[w] = record /\ heard.journals[w] = Told(record, outcome)
        /\ \A v \in Wallets \ {w} : /\ state.journals[v] = memory.journals[v]
                                    /\ heard.journals[v] = told.journals[v]
    BY <2>4, Zenon DEF DiskInv, StoreTypes, StoredState, Acknowledged
  <2>6. /\ Shows(state, heard)
        /\ outcome # "done" => Shows(file, heard) /\ Shows(flushed, heard)
    <3>1. ASSUME NEW v \in Wallets
          PROVE  /\ \A value \in heard.journals[v] : state.journals[v] = value
                 /\ outcome # "done" => \A value \in heard.journals[v] :
                      file.journals[v] = value /\ flushed.journals[v] = value
      <4>1. CASE v = w
        BY <2>5, <4>1, Zenon DEF Told
      <4>2. CASE v # w
        BY <2>5, <4>2, Zenon DEF DiskInv, AcknowledgedIsDurable, Holds
      <4> QED
        BY <4>1, <4>2, Zenon
    <3> QED
      BY <2>4, <3>1, Zenon DEF Shows, DiskInv, AcknowledgedIsDurable, Holds
  <2>7. DiskInv'
    BY <2>2, <2>3, <2>6, WriteKeeps, Zenon DEF Write
  <2>8. ASSUME NEW v \in Wallets
        PROVE  /\ memory.journals[v].version <= memory'.journals[v].version
               /\ memory.journals[v].version = memory'.journals[v].version
                    => memory.journals[v] = memory'.journals[v]
    <3>1. memory' = state /\ memory.journals[v].version \in Nat
      BY <2>2, Zenon
      DEF persist, DiskInv, StoreTypes, StoredState, JournalRecord
    <3>2. CASE v = w
      BY <2>1, <2>5, <3>1, <3>2
    <3>3. CASE v # w
      BY <2>5, <3>1, <3>3
    <3> QED
      BY <3>2, <3>3, Zenon
  <2> QED
    BY <2>7, <2>8, Zenon DEF VersionsMove
<1> QED
  BY <1>2, <1>3, Zenon

\* Every step keeps the invariant, and as long as the process runs no version
\* goes back.
LEMMA StepDurable ==
  ASSUME DiskInv, MaxVersion \in Nat, MaxRestarts \in Nat, restarts \in Nat, [DiskNext]_diskVars
  PROVE  DiskInv' /\ VersionsMove /\ restarts' \in Nat
<1>1. \A w \in Wallets : memory.journals[w].version \in Nat
  BY Zenon DEF DiskInv, StoreTypes, StoredState, JournalRecord
<1>2. ASSUME DiskInv', UNCHANGED restarts, memory'.journals = memory.journals
      PROVE  DiskInv' /\ VersionsMove /\ restarts' \in Nat
  BY <1>1, <1>2 DEF VersionsMove
<1>3. CASE WriteWallet
  BY <1>2, <1>3, WalletWrite, Zenon
<1>4. CASE WriteSecret
  BY <1>2, <1>4, SecretWrite, Zenon
<1>5. CASE LoadJournal \/ UNCHANGED diskVars
  <2>1. UNCHANGED <<memory, file, flushed, told, restarts>>
    BY <1>5, Zenon DEF LoadJournal, diskVars
  <2>2. DiskInv'
    BY <2>1, Zenon DEF DiskInv, StoreTypes, AcknowledgedIsDurable, Holds
  <2> QED
    BY <1>2, <2>1, <2>2, Zenon
<1>6. CASE compare_exchange_journal
  <2>1. UNCHANGED restarts
    BY <1>6, Zenon DEF compare_exchange_journal, Counted
  <2> QED
    BY <1>6, <2>1, JournalWrite, Zenon
<1>7. CASE Restart
  <2>1. restarts' \in Nat /\ restarts' # restarts
    BY <1>7 DEF Restart
  <2>2. DiskInv'
    BY <1>7, Zenon DEF Restart, open_default, DiskInv, StoreTypes,
       AcknowledgedIsDurable, Holds
  <2> QED
    BY <2>1, <2>2, Zenon DEF VersionsMove
<1> QED
  BY <1>3, <1>4, <1>5, <1>6, <1>7, Zenon DEF DiskNext

\* The disk store is what the journal needs, for any number of records,
\* versions, failing writes and restarts (DiskStore::persist,
\* compare_exchange_journal and open_default): what a write reported as done is
\* in the memory, in the file and on the disk after every later step, power
\* losses included, and two exchanges of one version are never both applied.
THEOREM DiskKeepsJournal ==
  ASSUME MaxVersion \in Nat, MaxRestarts \in Nat
  PROVE  DiskSpec => JournalIsDurable
<1>1. DiskInit => DiskInv /\ restarts \in Nat
  <2> SUFFICES ASSUME DiskInit PROVE DiskInv /\ restarts \in Nat
    BY Zenon
  <2>1. EmptyState \in StoredState
    BY Zenon DEF EmptyState, StoredState, JournalRecord
  <2>2. told \in Acknowledged
    <3>1. \A w \in Wallets : EmptyState.journals[w] \in JournalRecord
      BY <2>1, Zenon DEF StoredState
    <3>2. /\ [w \in Wallets |-> {FALSE}] \in [Wallets -> SUBSET BOOLEAN]
          /\ [w \in Wallets |-> {EmptyState.journals[w]}]
               \in [Wallets -> SUBSET JournalRecord]
          /\ {{}} \in SUBSET SUBSET Wallets
      BY <3>1, Zenon
    <3> QED
      BY <3>2, Zenon DEF DiskInit, Acknowledged
  <2>3. Holds(EmptyState)
    <3>1. /\ told.wallet = {{}} /\ EmptyState.wallet = {} /\ EmptyState.secrets = {}
          /\ told.secrets = [w \in Wallets |-> {FALSE}]
          /\ told.journals = [w \in Wallets |-> {EmptyState.journals[w]}]
      BY Zenon DEF DiskInit, EmptyState
    <3>2. \A w \in Wallets : /\ told.secrets[w] = {FALSE}
                             /\ told.journals[w] = {EmptyState.journals[w]}
      BY <3>1, Zenon
    <3>3. ASSUME NEW w \in Wallets, NEW value \in told.secrets[w]
          PROVE  (w \in EmptyState.secrets) = value
      <4>1. value \in {FALSE}
        BY <3>2, <3>3, Zenon
      <4>2. value = FALSE
        BY <4>1, Zenon
      <4>3. (w \in EmptyState.secrets) = FALSE
        BY <3>1
      <4> QED
        BY <4>2, <4>3, Zenon
    <3>4. \A value \in told.wallet : EmptyState.wallet = value
      BY <3>1, Zenon
    <3>5. \A w \in Wallets : \A value \in told.journals[w] :
            EmptyState.journals[w] = value
      BY <3>2, Zenon
    <3> QED
      BY <3>3, <3>4, <3>5, Zenon DEF Holds
  <2> QED
    BY <2>1, <2>2, <2>3, Zenon
    DEF DiskInit, StoreInit, DiskInv, StoreTypes, AcknowledgedIsDurable
<1>2. DiskInv /\ restarts \in Nat /\ [DiskNext]_diskVars =>
        (DiskInv /\ restarts \in Nat)' /\ [KeepsJournal]_diskVars
  BY StepDurable, Zenon DEF DiskInv, KeepsJournal
<1> QED
  BY <1>1, <1>2, PTL DEF DiskSpec, JournalIsDurable

-----------------------------------------------------------------------------
(* The records of wallets: the inductive invariant *)

Refs == {secret_ref_for(r) : r \in Records}

Secrets == Phrases \cup {[anchor |-> h, signing |-> h] : h \in Draws}

\* The descriptors that derive_descriptor computes.
Descriptors ==
  {derive_descriptor(r, n, p) : r \in {r \in Records : validate_record_id(r)},
                                n \in Networks, p \in Secrets}

\* A value with the fields of a call.
IsCall(c) ==
  c = [op |-> c.op, stage |-> c.stage, descriptor |-> c.descriptor,
       phrase |-> c.phrase, result |-> c.result, input |-> c.input,
       error |-> c.error]

\* The call has created a wallet, or is about to.
Creates(c) == c.op \in {"create", "import"} /\ c.stage \in {"storing", "done"}

\* The call has deleted a secret, or is about to.
Deletes(c) == c.op = "delete" /\ c.stage \in {"deleting", "done"}

\* What SecretOfTheWallet says of one call.
UsesOwnSecret(c) ==
  /\ verifying_key(derive_half_key(c.phrase.anchor)) = c.descriptor.public_key
  /\ derive_wallet(c.phrase, c.descriptor.network).address = c.descriptor.address
  /\ c.op # "reveal" =>
       c.result.public_key = verifying_key(derive_half_key(c.phrase.signing))
  /\ c.op \in {"proof", "data"} =>
       /\ c.result.signature.by = c.result.public_key
       /\ c.result.signature.over[2] = derive_ton_connect_account(c.descriptor).address

\* Each stage belongs to some operations, and a call beyond its checks has a
\* descriptor of its own.
CallIsSound(c) ==
  /\ IsCall(c)
  /\ c.stage = "storing" => Creates(c)
  /\ c.stage = "deleting" => Deletes(c)
  /\ c.stage = "reading" => c.op \in ReadOps
  /\ Creates(c) \/ Deletes(c) \/ c.stage = "reading" => c.descriptor \in Descriptors
  /\ Creates(c) => c.phrase \in Secrets /\ unlock_wallet(c.phrase, c.descriptor)
  /\ c.op \in ReadOps /\ c.stage = "done" => UsesOwnSecret(c)

LifecycleTypes ==
  /\ protected \in [Refs -> SUBSET Secrets]
  /\ kept \subseteq Descriptors
  /\ condemned \subseteq Descriptors
  /\ used \in Seq(Records \cup {BadRecord})
  /\ DOMAIN ongoing = Slots
  /\ ongoing = [s \in Slots |-> ongoing[s]]
  /\ \A s \in Slots : CallIsSound(ongoing[s])

\* The descriptors that the application was given.
Known == kept \cup condemned

\* Every record id of a wallet was picked by the application.
Picked ==
  /\ \A d \in Known : d.record_id \in Range(used)
  /\ \A s \in Slots : Creates(ongoing[s]) => ongoing[s].descriptor.record_id \in Range(used)

\* A record id that is used once names one wallet: a wallet in creation shares
\* its record with no other.
OneWallet ==
  /\ \A d, e \in Known : d.record_id = e.record_id => d = e
  /\ \A s \in Slots : Creates(ongoing[s]) =>
       /\ \A d \in Known : d.record_id # ongoing[s].descriptor.record_id
       /\ \A t \in Slots : t # s /\ Creates(ongoing[t]) =>
            ongoing[t].descriptor.record_id # ongoing[s].descriptor.record_id

\* The storage follows the calls that have succeeded.
InStep ==
  /\ \A s \in Slots : Creates(ongoing[s]) /\ ongoing[s].stage = "done" =>
       ongoing[s].phrase \in protected[ongoing[s].descriptor.secret_ref]
  /\ \A s \in Slots : Deletes(ongoing[s]) =>
       /\ ongoing[s].descriptor \in condemned
       /\ ongoing[s].stage = "done" => protected[ongoing[s].descriptor.secret_ref] = {}
  /\ KeptOpens
  /\ ForgottenIsGone

LifecycleInv == LifecycleTypes /\ Picked /\ (Unique => OneWallet /\ InStep)

-----------------------------------------------------------------------------
(* Descriptors *)

\* A derived descriptor has the fields that validate_descriptor compares, and its
\* reference is one of the storage.
LEMMA DescriptorFields ==
  ASSUME NEW d \in Descriptors
  PROVE  /\ d = [record_id |-> d.record_id, address |-> d.address,
                 public_key |-> d.public_key, network |-> d.network,
                 secret_ref |-> d.secret_ref]
         /\ d.record_id \in Records
         /\ d.secret_ref = secret_ref_for(d.record_id)
         /\ d.secret_ref \in Refs
         /\ d.address = <<"address", wallet_contract_id(d.network), d.public_key>>
<1>1. PICK r \in Records, n \in Networks, p \in Secrets :
        d = derive_descriptor(r, n, p)
  BY DEF Descriptors
<1> QED
  BY <1>1, Zenon
  DEF derive_descriptor, derive_wallet, derive_rotation_keys,
      derive_wallet_public_state, Refs

\* Two references are equal only for the same record.
LEMMA RefOfRecord ==
  ASSUME NEW r, NEW q, secret_ref_for(r) = secret_ref_for(q)
  PROVE  r = q
BY Zenon DEF secret_ref_for

\* The address of a wallet determines its wallet id and its key.
LEMMA KeyOfAddress ==
  ASSUME NEW i, NEW k, NEW j, NEW l, <<"address", i, k>> = <<"address", j, l>>
  PROVE  i = j /\ k = l
BY Zenon

\* The descriptor that a wallet's creation derives is opened by its phrase.
LEMMA DerivedOpens ==
  ASSUME NEW r \in Records, validate_record_id(r), NEW n \in Networks,
         NEW p \in Secrets
  PROVE  /\ derive_descriptor(r, n, p) \in Descriptors
         /\ derive_descriptor(r, n, p).record_id = r
         /\ unlock_wallet(p, derive_descriptor(r, n, p))
<1>1. derive_descriptor(r, n, p) \in Descriptors
  BY DEF Descriptors
<1> QED
  BY <1>1
  DEF derive_descriptor, unlock_wallet, derive_wallet, derive_rotation_keys

\* A descriptor with a field of another wallet passes validate_descriptor only if
\* the field is its own.
LEMMA MixedIsKept ==
  ASSUME kept \subseteq Descriptors, NEW d \in Presented, validate_descriptor(d)
  PROVE  d \in kept
<1>1. ASSUME NEW k \in kept, NEW e \in kept, d = [k EXCEPT !.secret_ref = e.secret_ref]
      PROVE  d \in kept
  <2>1. d.record_id = k.record_id /\ d.secret_ref = e.secret_ref
    BY <1>1, DescriptorFields
  <2>2. d.secret_ref = k.secret_ref
    BY <2>1, DescriptorFields, Zenon DEF validate_descriptor
  <2> QED
    BY <1>1, <2>1, <2>2, DescriptorFields
<1>2. ASSUME NEW k \in kept, NEW e \in kept, d = [k EXCEPT !.public_key = e.public_key]
      PROVE  d \in kept
  <2>1. d.address = k.address /\ d.network = k.network /\ d.public_key = e.public_key
    BY <1>2, DescriptorFields
  <2>2. d.address = <<"address", wallet_contract_id(d.network), d.public_key>>
    BY DEF validate_descriptor, derive_wallet_public_state
  <2>3. k.address = <<"address", wallet_contract_id(k.network), k.public_key>>
    BY DescriptorFields, Zenon
  <2> DEFINE i == wallet_contract_id(k.network)
  <2>4. <<"address", i, e.public_key>> = <<"address", i, k.public_key>>
    BY <2>1, <2>2, <2>3, Zenon
  <2>5. e.public_key = k.public_key
    BY <2>4, KeyOfAddress, Zenon
  <2> QED
    BY <1>2, <2>5, DescriptorFields
<1>3. ASSUME NEW k \in kept, NEW n \in Networks, d = [k EXCEPT !.network = n]
      PROVE  d \in kept
  <2>1. d.address = k.address /\ d.network = n /\ d.public_key = k.public_key
    BY <1>3, DescriptorFields
  <2>2. d.address = <<"address", wallet_contract_id(d.network), d.public_key>>
    BY Zenon DEF validate_descriptor, derive_wallet_public_state
  <2>3. k.address = <<"address", wallet_contract_id(k.network), k.public_key>>
    BY DescriptorFields, Zenon
  <2> DEFINE i == wallet_contract_id(n)
             j == wallet_contract_id(k.network)
  <2>4. <<"address", i, k.public_key>> = <<"address", j, k.public_key>>
    BY <2>1, <2>2, <2>3, Zenon
  <2>5. n = k.network
    BY <2>4, KeyOfAddress, Zenon DEF wallet_contract_id
  <2> QED
    BY <1>3, <2>5, DescriptorFields, Zenon
<1> QED
  BY <1>1, <1>2, <1>3 DEF Presented

-----------------------------------------------------------------------------
(* What a step does *)

\* No call but that of slot s changes.
OnlyCall(s) == ongoing' = [ongoing EXCEPT ![s] = ongoing'[s]]

\* A call starts without effect, reads, fails or returns.
Passes(s) ==
  /\ OnlyCall(s) /\ ~Creates(ongoing'[s]) /\ ~Deletes(ongoing'[s])
  /\ used' = used \/ \E r \in Records \cup {BadRecord} : used' = Append(used, r)
  /\ UNCHANGED <<protected, kept, condemned>>

\* A call derives the descriptor of a new wallet.
Derives(s) ==
  /\ OnlyCall(s) /\ Creates(ongoing'[s]) /\ ongoing'[s].stage = "storing"
  /\ used' = Append(used, ongoing'[s].descriptor.record_id)
  /\ UNCHANGED <<protected, kept, condemned>>

\* A call is about to delete the secret of a wallet that is kept.
Condemns(s) ==
  /\ OnlyCall(s) /\ Deletes(ongoing'[s]) /\ ongoing'[s].stage = "deleting"
  /\ ongoing'[s].descriptor \in kept
  /\ condemned' = condemned \cup {ongoing'[s].descriptor}
  /\ UNCHANGED <<protected, kept, used>>

\* The storage call of a slot happens, and the slot learns of it or fails.
Follows(s) ==
  /\ OnlyCall(s)
  /\ \/ ongoing'[s].stage = "failed"
     \/ ongoing'[s] = [ongoing[s] EXCEPT !.stage = "done"]
  /\ UNCHANGED <<kept, condemned, used>>

Stores(s) ==
  /\ ongoing[s].stage = "storing" /\ Follows(s)
  /\ protected' = [protected EXCEPT ![ongoing[s].descriptor.secret_ref] = {ongoing[s].phrase}]

Erases(s) ==
  /\ ongoing[s].stage = "deleting" /\ Follows(s)
  /\ protected' = [protected EXCEPT ![ongoing[s].descriptor.secret_ref] = {}]

\* The application keeps or forgets a descriptor.
Keeps(s) ==
  /\ Creates(ongoing[s]) /\ ongoing[s].stage = "done"
  /\ OnlyCall(s) /\ ongoing'[s] = idle
  /\ kept' = kept \cup {ongoing[s].descriptor}
  /\ UNCHANGED <<protected, condemned, used>>

Forgets(s) ==
  /\ Deletes(ongoing[s]) /\ ongoing[s].stage = "done"
  /\ OnlyCall(s) /\ ongoing'[s] = idle
  /\ kept' = kept \ {ongoing[s].descriptor}
  /\ UNCHANGED <<protected, condemned, used>>

Moves(s) ==
  /\ CallIsSound(ongoing'[s])
  /\ \/ Passes(s) \/ Derives(s) \/ Condemns(s) \/ Stores(s) \/ Erases(s)
     \/ Keeps(s) \/ Forgets(s)

\* A slot that is free has no descriptor.
LEMMA IdleIsSound == CallIsSound(idle) /\ ~Creates(idle) /\ ~Deletes(idle)
BY Zenon DEF CallIsSound, IsCall, Creates, Deletes, idle, ReadOps

\* A call that fails its checks has no effect.
LEMMA FailedPasses ==
  ASSUME LifecycleTypes, NEW s \in Slots, NEW op, NEW error, Failed(s, op, error),
         used' = used \/ \E r \in Records \cup {BadRecord} : used' = Append(used, r)
  PROVE  Moves(s)
<1>1. ongoing'[s] = [idle EXCEPT !.op = op, !.stage = "failed", !.error = error]
  BY Zenon DEF LifecycleTypes, Failed, Started
<1>2. OnlyCall(s)
  BY <1>1, Zenon DEF LifecycleTypes, Failed, Started, OnlyCall
<1>3. CallIsSound(ongoing'[s]) /\ ~Creates(ongoing'[s]) /\ ~Deletes(ongoing'[s])
  BY <1>1, Zenon DEF CallIsSound, IsCall, Creates, Deletes, idle
<1> QED
  BY <1>2, <1>3, Zenon DEF Moves, Passes, Failed

\* create_wallet and import_wallet derive a descriptor that the phrase opens.
LEMMA CreationMoves ==
  ASSUME LifecycleTypes, NEW s \in Slots, NEW op \in {"create", "import"},
         NEW record \in Records, validate_record_id(record), NEW n \in Networks,
         NEW p \in Secrets, used' = Append(used, record),
         Started(s, [idle EXCEPT !.op = op, !.stage = "storing", !.phrase = p,
                                 !.descriptor = derive_descriptor(record, n, p)]),
         UNCHANGED <<protected, kept, condemned>>
  PROVE  Moves(s)
<1> DEFINE d == derive_descriptor(record, n, p)
<1>1. d \in Descriptors /\ d.record_id = record /\ unlock_wallet(p, d)
  BY DerivedOpens, Zenon
<1> HIDE DEF d
<1>2. ongoing'[s] = [idle EXCEPT !.op = op, !.stage = "storing", !.phrase = p,
                               !.descriptor = d]
  BY Zenon DEF LifecycleTypes, Started, d
<1>3. OnlyCall(s)
  BY <1>2, Zenon DEF LifecycleTypes, Started, OnlyCall, d
<1>4. /\ IsCall(ongoing'[s]) /\ ongoing'[s].op = op /\ ongoing'[s].stage = "storing"
      /\ ongoing'[s].phrase = p /\ ongoing'[s].descriptor = d
  BY <1>2, Zenon DEF IsCall, idle
<1>5. Creates(ongoing'[s])
  BY <1>4, Zenon DEF Creates
<1>6. CallIsSound(ongoing'[s])
  BY <1>1, <1>4, <1>5, Zenon DEF CallIsSound
<1> QED
  BY <1>1, <1>3, <1>4, <1>5, <1>6, Zenon DEF Moves, Derives

\* create_wallet fails or derives a descriptor.
LEMMA CreateMoves ==
  ASSUME LifecycleTypes, NEW s \in Slots, create_wallet(s)
  PROVE  Moves(s)
<1>1. PICK record \in Records \cup {BadRecord}, n \in Networks :
        /\ PicksRecord(record)
        /\ \/ ~validate_record_id(record) /\ Failed(s, "create", "InvalidRecordId")
           \/ /\ validate_record_id(record)
              /\ \E half \in Draws :
                   /\ Started(s, [idle EXCEPT
                         !.op = "create", !.stage = "storing",
                         !.phrase = [anchor |-> half, signing |-> half],
                         !.descriptor = derive_descriptor(record, n,
                                          [anchor |-> half, signing |-> half])])
                   /\ UNCHANGED <<protected, kept, condemned>>
  BY Zenon DEF create_wallet
<1>2. used' = Append(used, record)
  BY <1>1, Zenon DEF PicksRecord
<1>3. CASE ~validate_record_id(record)
  BY <1>1, <1>2, <1>3, FailedPasses, Zenon
<1>4. CASE validate_record_id(record)
  <2>1. record \in Records
    BY <1>4, Zenon DEF validate_record_id
  <2>2. PICK half \in Draws :
          /\ Started(s, [idle EXCEPT
                !.op = "create", !.stage = "storing",
                !.phrase = [anchor |-> half, signing |-> half],
                !.descriptor = derive_descriptor(record, n,
                                 [anchor |-> half, signing |-> half])])
          /\ UNCHANGED <<protected, kept, condemned>>
    BY <1>1, <1>4, Zenon
  <2>3. [anchor |-> half, signing |-> half] \in Secrets
    BY Zenon DEF Secrets
  <2> QED
    BY <1>2, <1>4, <2>1, <2>2, <2>3, CreationMoves, Zenon
<1> QED
  BY <1>3, <1>4, Zenon

\* import_wallet fails or derives a descriptor.
LEMMA ImportMoves ==
  ASSUME LifecycleTypes, NEW s \in Slots, import_wallet(s)
  PROVE  Moves(s)
<1>1. PICK record \in Records \cup {BadRecord}, n \in Networks,
           p \in Phrases \cup {NoPhrase} :
        /\ PicksRecord(record)
        /\ \/ ~validate_record_id(record) /\ Failed(s, "import", "InvalidRecordId")
           \/ /\ validate_record_id(record) /\ p = NoPhrase
              /\ Failed(s, "import", "InvalidRecoveryPhrase")
           \/ /\ validate_record_id(record) /\ p # NoPhrase
              /\ Started(s, [idle EXCEPT
                      !.op = "import", !.stage = "storing", !.phrase = p,
                      !.descriptor = derive_descriptor(record, n, p)])
              /\ UNCHANGED <<protected, kept, condemned>>
  BY Zenon DEF import_wallet
<1>2. used' = Append(used, record)
  BY <1>1, Zenon DEF PicksRecord
<1>3. CASE ~validate_record_id(record) \/ p = NoPhrase
  BY <1>1, <1>2, <1>3, FailedPasses, Zenon
<1>4. CASE validate_record_id(record) /\ p # NoPhrase
  <2>1. record \in Records /\ p \in Secrets
    BY <1>4, Zenon DEF validate_record_id, Secrets
  <2> QED
    BY <1>1, <1>2, <1>4, <2>1, CreationMoves, Zenon
<1> QED
  BY <1>3, <1>4, Zenon

\* A call that reads a secret fails, or has a descriptor that is kept.
LEMMA ReadCallMoves ==
  ASSUME LifecycleTypes, NEW s \in Slots, ReadCall(s)
  PROVE  Moves(s)
<1>1. PICK op \in ReadOps, d \in Presented, input \in BOOLEAN :
        \/ ~validate_descriptor(d) /\ Failed(s, op, "InvalidRecordId")
        \/ Failed(s, op, InputError(op))
        \/ /\ validate_descriptor(d)
           /\ Started(s, [idle EXCEPT !.op = op, !.stage = "reading",
                                      !.descriptor = d, !.input = input])
           /\ UNCHANGED <<protected, kept, condemned>>
  BY Zenon DEF ReadCall
<1>2. used' = used
  BY Zenon DEF ReadCall
<1>3. CASE Failed(s, op, "InvalidRecordId") \/ Failed(s, op, InputError(op))
  BY <1>2, <1>3, FailedPasses, Zenon
<1>4. CASE /\ validate_descriptor(d)
           /\ Started(s, [idle EXCEPT !.op = op, !.stage = "reading",
                                      !.descriptor = d, !.input = input])
           /\ UNCHANGED <<protected, kept, condemned>>
  <2>1. d \in Descriptors
    BY <1>4, MixedIsKept, Zenon DEF LifecycleTypes
  <2>2. ongoing'[s] = [idle EXCEPT !.op = op, !.stage = "reading",
                                 !.descriptor = d, !.input = input]
    BY <1>4, Zenon DEF LifecycleTypes, Started
  <2>3. OnlyCall(s)
    BY <1>4, <2>2, Zenon DEF LifecycleTypes, Started, OnlyCall
  <2>4. /\ IsCall(ongoing'[s]) /\ ongoing'[s].op = op /\ ongoing'[s].stage = "reading"
        /\ ongoing'[s].descriptor = d
    BY <2>2, Zenon DEF IsCall, idle
  <2>5. ~Creates(ongoing'[s]) /\ ~Deletes(ongoing'[s])
    BY <2>4, Zenon DEF Creates, Deletes
  <2>6. CallIsSound(ongoing'[s])
    BY <2>1, <2>4, <2>5, Zenon DEF CallIsSound
  <2> QED
    BY <1>2, <1>4, <2>3, <2>5, <2>6, Zenon DEF Moves, Passes
<1> QED
  BY <1>1, <1>3, <1>4, Zenon

\* delete_wallet fails or condemns a wallet that is kept.
LEMMA DeleteMoves ==
  ASSUME LifecycleTypes, NEW s \in Slots, delete_wallet(s)
  PROVE  Moves(s)
<1>1. PICK d \in Presented :
        \/ ~validate_descriptor(d) /\ Failed(s, "delete", "InvalidRecordId")
        \/ /\ validate_descriptor(d)
           /\ Started(s, [idle EXCEPT !.op = "delete", !.stage = "deleting",
                                      !.descriptor = d])
           /\ condemned' = condemned \cup {d}
           /\ UNCHANGED <<protected, kept>>
  BY Zenon DEF delete_wallet
<1>2. used' = used
  BY Zenon DEF delete_wallet
<1>3. CASE ~validate_descriptor(d)
  BY <1>1, <1>2, <1>3, FailedPasses, Zenon
<1>4. CASE validate_descriptor(d)
  <2>1. d \in kept /\ d \in Descriptors
    BY <1>4, MixedIsKept, Zenon DEF LifecycleTypes
  <2>2. ongoing'[s] = [idle EXCEPT !.op = "delete", !.stage = "deleting",
                                 !.descriptor = d]
    BY <1>1, <1>4, Zenon DEF LifecycleTypes, Started
  <2>3. OnlyCall(s)
    BY <1>1, <1>4, <2>2, Zenon DEF LifecycleTypes, Started, OnlyCall
  <2>4. /\ IsCall(ongoing'[s]) /\ ongoing'[s].op = "delete"
        /\ ongoing'[s].stage = "deleting" /\ ongoing'[s].descriptor = d
    BY <2>2, Zenon DEF IsCall, idle
  <2>5. ~Creates(ongoing'[s]) /\ Deletes(ongoing'[s])
    BY <2>4, Zenon DEF Creates, Deletes
  <2>6. CallIsSound(ongoing'[s])
    BY <2>1, <2>4, <2>5, Zenon DEF CallIsSound, ReadOps
  <2> QED
    BY <1>1, <1>2, <1>4, <2>1, <2>3, <2>4, <2>5, <2>6, Zenon DEF Moves, Condemns
<1> QED
  BY <1>3, <1>4, Zenon

\* ton_connect_account touches no secret.
LEMMA AccountMoves ==
  ASSUME LifecycleTypes, NEW s \in Slots, ton_connect_account(s)
  PROVE  Moves(s)
<1>1. PICK d \in Presented :
        \/ ~validate_descriptor(d) /\ Failed(s, "account", "InvalidRecordId")
        \/ /\ Started(s, [idle EXCEPT !.op = "account", !.stage = "done",
                   !.descriptor = d, !.result = derive_ton_connect_account(d)])
           /\ UNCHANGED <<protected, kept, condemned>>
  BY Zenon DEF ton_connect_account
<1>2. used' = used
  BY Zenon DEF ton_connect_account
<1>3. CASE Failed(s, "account", "InvalidRecordId")
  BY <1>2, <1>3, FailedPasses, Zenon
<1>4. CASE /\ Started(s, [idle EXCEPT !.op = "account", !.stage = "done",
                   !.descriptor = d, !.result = derive_ton_connect_account(d)])
           /\ UNCHANGED <<protected, kept, condemned>>
  <2>1. ongoing'[s] = [idle EXCEPT !.op = "account", !.stage = "done",
                 !.descriptor = d, !.result = derive_ton_connect_account(d)]
    BY <1>4, Zenon DEF LifecycleTypes, Started
  <2>2. OnlyCall(s)
    BY <1>4, <2>1, Zenon DEF LifecycleTypes, Started, OnlyCall
  <2>3. IsCall(ongoing'[s]) /\ ongoing'[s].op = "account" /\ ongoing'[s].stage = "done"
    BY <2>1, Zenon DEF IsCall, idle
  <2>4. ~Creates(ongoing'[s]) /\ ~Deletes(ongoing'[s])
    BY <2>3, Zenon DEF Creates, Deletes
  <2>5. CallIsSound(ongoing'[s])
    BY <2>3, <2>4, Zenon DEF CallIsSound, ReadOps
  <2> QED
    BY <1>2, <1>4, <2>2, <2>4, <2>5, Zenon DEF Moves, Passes
<1> QED
  BY <1>1, <1>3, <1>4, Zenon

\* A storage call that fails leaves a failed call behind.
LEMMA FailingIsSound ==
  ASSUME LifecycleTypes, NEW s \in Slots, NEW error,
         ongoing' = [ongoing EXCEPT ![s].stage = "failed", ![s].error = error]
  PROVE  /\ OnlyCall(s) /\ CallIsSound(ongoing'[s]) /\ ongoing'[s].stage = "failed"
         /\ ~Creates(ongoing'[s]) /\ ~Deletes(ongoing'[s])
<1>1. IsCall(ongoing[s])
  BY Zenon DEF LifecycleTypes, CallIsSound
<1>2. ongoing'[s] = [ongoing[s] EXCEPT !.stage = "failed", !.error = error]
  BY Zenon DEF LifecycleTypes
<1>3. OnlyCall(s)
  BY <1>2, Zenon DEF LifecycleTypes, OnlyCall
<1>4. IsCall(ongoing'[s]) /\ ongoing'[s].stage = "failed"
  BY <1>1, <1>2, Zenon DEF IsCall
<1>5. ~Creates(ongoing'[s]) /\ ~Deletes(ongoing'[s])
  BY <1>4, Zenon DEF Creates, Deletes
<1> QED
  BY <1>3, <1>4, <1>5, Zenon DEF CallIsSound

\* A storage call that succeeds.
LEMMA SucceedingIsSound ==
  ASSUME LifecycleTypes, NEW s \in Slots, ongoing[s].stage \in {"storing", "deleting"},
         ongoing' = [ongoing EXCEPT ![s].stage = "done"]
  PROVE  /\ OnlyCall(s) /\ CallIsSound(ongoing'[s])
         /\ ongoing'[s] = [ongoing[s] EXCEPT !.stage = "done"]
<1>1. CallIsSound(ongoing[s]) /\ IsCall(ongoing[s])
  BY Zenon DEF LifecycleTypes, CallIsSound
<1>2. ongoing'[s] = [ongoing[s] EXCEPT !.stage = "done"]
  BY Zenon DEF LifecycleTypes
<1>3. OnlyCall(s)
  BY <1>2, Zenon DEF LifecycleTypes, OnlyCall
<1>4. /\ IsCall(ongoing'[s]) /\ ongoing'[s].stage = "done" /\ ongoing'[s].op = ongoing[s].op
      /\ ongoing'[s].descriptor = ongoing[s].descriptor
      /\ ongoing'[s].phrase = ongoing[s].phrase
  BY <1>1, <1>2 DEF IsCall
<1>5. ongoing[s].op \in {"create", "import", "delete"}
  BY <1>1, Zenon DEF CallIsSound, Creates, Deletes
<1>6. /\ Creates(ongoing'[s]) <=> Creates(ongoing[s])
      /\ Deletes(ongoing'[s]) <=> Deletes(ongoing[s])
  BY <1>1, <1>4, Zenon DEF CallIsSound, Creates, Deletes
<1>7. CallIsSound(ongoing'[s])
  BY <1>1, <1>4, <1>5, <1>6, Zenon DEF CallIsSound, ReadOps
<1> QED
  BY <1>2, <1>3, <1>7, Zenon

\* The host's store and delete calls, also those that fail after they wrote.
LEMMA StorageMoves ==
  ASSUME LifecycleTypes, NEW s \in Slots,
         \/ StoreSecret(s) \/ DeleteSecret(s) \/ MissingSecret(s)
         \/ UnreadableSecret(s) \/ HostFails(s)
  PROVE  Moves(s)
<1>1. CASE StoreSecret(s)
  BY <1>1, SucceedingIsSound, Zenon DEF StoreSecret, Moves, Stores, Follows
<1>2. CASE DeleteSecret(s)
  BY <1>2, SucceedingIsSound, Zenon DEF DeleteSecret, Moves, Erases, Follows
<1>3. CASE MissingSecret(s)
  BY <1>3, FailingIsSound, Zenon DEF MissingSecret, Moves, Passes
<1>4. CASE HostFails(s)
  BY <1>4, FailingIsSound, Zenon DEF HostFails, Moves, Passes, Stores, Erases, Follows
<1>5. CASE UnreadableSecret(s)
  BY <1>5, FailingIsSound, Zenon DEF UnreadableSecret, Moves, Passes
<1> QED
  BY <1>1, <1>2, <1>3, <1>4, <1>5, Zenon

\* A phrase that passes the comparison of a reading call is the one of the
\* descriptor, and what the call returns was made with it.
LEMMA ReadIsOwn ==
  ASSUME NEW c, IsCall(c), c.op \in ReadOps, c.descriptor \in Descriptors, NEW p,
         Belongs(c.op, p, c.descriptor), NEW k, k.op = c.op,
         k.descriptor = c.descriptor, k.phrase = p,
         k.result = ResultOf(c.op, p, c.descriptor)
  PROVE  UsesOwnSecret(k)
<1> DEFINE d == c.descriptor
           wallet == derive_wallet(p, d.network)
<1>1. /\ wallet.anchor = derive_half_key(p.anchor)
      /\ wallet.signing = derive_half_key(p.signing)
      /\ wallet.address = <<"address", wallet_contract_id(d.network),
                            verifying_key(derive_half_key(p.anchor))>>
  BY Zenon DEF derive_wallet, derive_rotation_keys, derive_wallet_public_state
<1>2. wallet.address = d.address
  BY Zenon DEF Belongs, unlock_wallet, derive_address
<1>3. d.address = <<"address", wallet_contract_id(d.network), d.public_key>>
  BY DescriptorFields, Zenon
<1>4. verifying_key(derive_half_key(p.anchor)) = d.public_key
  <2> DEFINE i == wallet_contract_id(d.network)
             v == verifying_key(derive_half_key(p.anchor))
  <2>1. <<"address", i, v>> = <<"address", i, d.public_key>>
    BY <1>1, <1>2, <1>3, Zenon
  <2> QED
    BY <2>1, KeyOfAddress, Zenon
<1>5. derive_ton_connect_account(d).address = d.address
  BY <1>3, Zenon DEF derive_ton_connect_account, derive_wallet_public_state
<1>6. CASE c.op = "reveal"
  BY <1>2, <1>4, <1>6, Zenon DEF UsesOwnSecret
<1>7. CASE c.op = "proof"
  <2>1. k.result = sign_ton_connect_proof(p, d)
    BY <1>7, Zenon DEF ResultOf
  <2> HIDE DEF d
  <2>2. /\ k.result.public_key = verifying_key(derive_half_key(p.signing))
        /\ k.result.signature.by = k.result.public_key
        /\ k.result.signature.over[2] = d.address
    BY <1>1, <2>1
    DEF sign_ton_connect_proof, signing_public_key, sign_ton_connect_digest,
        Sign
  <2> QED
    BY <1>2, <1>4, <1>5, <1>7, <2>2, Zenon DEF UsesOwnSecret, d
<1>8. CASE c.op = "data"
  <2>1. k.result = sign_ton_connect_data(p, d)
    BY <1>8, Zenon DEF ResultOf
  <2> HIDE DEF d
  <2>2. /\ k.result.public_key = verifying_key(derive_half_key(p.signing))
        /\ k.result.signature.by = k.result.public_key
        /\ k.result.signature.over[2] = d.address
    BY <1>1, <2>1
    DEF sign_ton_connect_data, signing_public_key, sign_ton_connect_digest,
        Sign
  <2> QED
    BY <1>2, <1>4, <1>5, <1>8, <2>2, Zenon DEF UsesOwnSecret, d
<1>9. CASE c.op = "session"
  <2>1. k.result = derive_ton_connect_session(p, d)
    BY <1>9, Zenon DEF ResultOf
  <2>2. k.result.public_key = verifying_key(derive_half_key(p.signing))
    BY <1>1, <2>1 DEF derive_ton_connect_session, signing_public_key
  <2> QED
    BY <1>2, <1>4, <1>9, <2>2, Zenon DEF UsesOwnSecret
<1> QED
  BY <1>6, <1>7, <1>8, <1>9, Zenon DEF ReadOps

\* A read either fails or returns what the wallet's own secret made.
LEMMA ReadSecretMoves ==
  ASSUME LifecycleTypes, NEW s \in Slots, ReadSecret(s)
  PROVE  Moves(s)
<1> DEFINE c == ongoing[s]
<1>0. PICK p \in protected[c.descriptor.secret_ref] : \E error :
        /\ error = "none" => Belongs(c.op, p, c.descriptor)
        /\ ongoing' = [ongoing EXCEPT
             ![s].stage = IF error = "none" THEN "done" ELSE "failed",
             ![s].phrase = p, ![s].error = error,
             ![s].result = IF error = "none" THEN ResultOf(c.op, p, c.descriptor)
                           ELSE @]
  BY Zenon DEF ReadSecret
<1>1. PICK error :
        /\ error = "none" => Belongs(c.op, p, c.descriptor)
        /\ ongoing' = [ongoing EXCEPT
             ![s].stage = IF error = "none" THEN "done" ELSE "failed",
             ![s].phrase = p, ![s].error = error,
             ![s].result = IF error = "none" THEN ResultOf(c.op, p, c.descriptor)
                           ELSE @]
  BY <1>0, Zenon
<1>2. CallIsSound(c) /\ IsCall(c) /\ c.stage = "reading"
  BY Zenon DEF LifecycleTypes, CallIsSound, ReadSecret
<1>3. c.op \in ReadOps /\ c.descriptor \in Descriptors
  BY <1>2, Zenon DEF CallIsSound
<1>4. ongoing'[s] = [c EXCEPT
        !.stage = IF error = "none" THEN "done" ELSE "failed",
        !.phrase = p, !.error = error,
        !.result = IF error = "none" THEN ResultOf(c.op, p, c.descriptor) ELSE @]
  BY <1>1, Zenon DEF LifecycleTypes
<1>5. OnlyCall(s)
  <2>1. DOMAIN ongoing' = Slots /\ ongoing' = [t \in Slots |-> ongoing'[t]]
    BY <1>1, Zenon DEF LifecycleTypes
  <2>2. \A t \in Slots : t # s => ongoing'[t] = ongoing[t]
    BY <1>1, Zenon DEF LifecycleTypes
  <2> QED
    BY <2>1, <2>2, Zenon DEF LifecycleTypes, OnlyCall
<1> HIDE DEF c
<1>6. /\ IsCall(ongoing'[s]) /\ ongoing'[s].op = c.op
      /\ ongoing'[s].stage = IF error = "none" THEN "done" ELSE "failed"
      /\ ongoing'[s].descriptor = c.descriptor /\ ongoing'[s].phrase = p
      /\ error = "none" => ongoing'[s].result = ResultOf(c.op, p, c.descriptor)
  BY <1>2, <1>4, Zenon DEF IsCall
<1>7. ~Creates(ongoing'[s]) /\ ~Deletes(ongoing'[s])
  BY <1>3, <1>6, Zenon DEF Creates, Deletes, ReadOps
<1>8. ongoing'[s].stage = "done" => UsesOwnSecret(ongoing'[s])
  <2>1. SUFFICES ASSUME error = "none"
                 PROVE  UsesOwnSecret(ongoing'[s])
    BY <1>6, Zenon
  <2> QED
    BY <1>1, <1>2, <1>3, <1>6, <2>1, ReadIsOwn, Zenon DEF c
<1>9. CallIsSound(ongoing'[s])
  BY <1>6, <1>7, <1>8, Zenon DEF CallIsSound
<1> QED
  BY <1>5, <1>7, <1>9, Zenon DEF Moves, Passes, ReadSecret

\* The application keeps the descriptor of a wallet that was created, forgets that
\* of one that was deleted, and no other.
LEMMA ReturnedMoves ==
  ASSUME LifecycleTypes, NEW s \in Slots, Returned(s)
  PROVE  Moves(s)
<1>1. ongoing'[s] = idle
  BY Zenon DEF LifecycleTypes, Returned
<1>2. OnlyCall(s)
  BY <1>1, Zenon DEF LifecycleTypes, Returned, OnlyCall
<1>3. CASE ongoing[s].stage = "done" /\ ongoing[s].op \in {"create", "import"}
  <2>1. Creates(ongoing[s]) /\ kept' = kept \cup {ongoing[s].descriptor}
    BY <1>3, Zenon DEF Creates, Returned
  <2> QED
    BY <1>1, <1>2, <1>3, <2>1, IdleIsSound, Zenon DEF Moves, Keeps, Returned
<1>4. CASE ongoing[s].stage = "done" /\ ongoing[s].op = "delete"
  <2>1. Deletes(ongoing[s]) /\ kept' = kept \ {ongoing[s].descriptor}
    BY <1>4, Zenon DEF Deletes, Returned
  <2> QED
    BY <1>1, <1>2, <1>4, <2>1, IdleIsSound, Zenon DEF Moves, Forgets, Returned
<1>5. CASE ongoing[s].stage = "failed" \/ ongoing[s].op \notin {"create", "import", "delete"}
  <2>1. kept' = kept
    BY <1>5, Zenon DEF Returned
  <2> QED
    BY <1>1, <1>2, <2>1, IdleIsSound, Zenon DEF Moves, Passes, Returned
<1> QED
  BY <1>3, <1>4, <1>5, Zenon DEF Returned

\* Every step moves one call, or ends them all.
LEMMA StepMoves ==
  ASSUME LifecycleTypes, LifecycleNext
  PROVE  (\E s \in Slots : Moves(s)) \/ Crash
BY CreateMoves, ImportMoves, ReadCallMoves, DeleteMoves, AccountMoves, StorageMoves,
   ReadSecretMoves, ReturnedMoves, Zenon DEF LifecycleNext

-----------------------------------------------------------------------------
(* The invariant is inductive *)

\* What every move leaves of the types.
LEMMA TypesKept ==
  ASSUME LifecycleTypes, NEW s \in Slots, Moves(s)
  PROVE  LifecycleTypes'
<1>1. OnlyCall(s) /\ CallIsSound(ongoing'[s])
  BY Zenon DEF Moves, Passes, Derives, Condemns, Stores, Erases, Follows, Keeps, Forgets
<1>2. /\ DOMAIN ongoing' = Slots
      /\ ongoing' = [t \in Slots |-> ongoing'[t]]
      /\ \A t \in Slots : t # s => ongoing'[t] = ongoing[t]
  BY <1>1, Zenon DEF OnlyCall, LifecycleTypes
<1>3. \A t \in Slots : CallIsSound(ongoing'[t])
  BY <1>1, <1>2, Zenon DEF LifecycleTypes
<1>4. protected' \in [Refs -> SUBSET Secrets]
  <2>1. CASE Stores(s)
    <3>1. Creates(ongoing[s]) /\ ongoing[s].phrase \in Secrets
      BY <2>1, Zenon DEF Stores, LifecycleTypes, CallIsSound
    <3> QED
      BY <2>1, <3>1, Zenon DEF Stores, LifecycleTypes
  <2>2. CASE Erases(s)
    BY <2>2, Zenon DEF Erases, LifecycleTypes
  <2>3. CASE protected' = protected
    BY <2>3, Zenon DEF LifecycleTypes
  <2> QED
    BY <2>1, <2>2, <2>3, Zenon DEF Moves, Passes, Derives, Condemns, Keeps, Forgets
<1>5. used' \in Seq(Records \cup {BadRecord})
  <2>1. CASE Derives(s)
    <3>1. ongoing'[s].descriptor \in Descriptors
      BY <1>1, <2>1, Zenon DEF Derives, CallIsSound
    <3>2. ongoing'[s].descriptor.record_id \in Records
      BY <3>1, DescriptorFields, Zenon
    <3> QED
      BY <2>1, <3>2 DEF Derives, LifecycleTypes
  <2>2. ASSUME NEW r \in Records \cup {BadRecord}, used' = Append(used, r)
        PROVE  used' \in Seq(Records \cup {BadRecord})
    BY <2>2 DEF LifecycleTypes
  <2>3. CASE used' = used
    BY <2>3, Zenon DEF LifecycleTypes
  <2> QED
    BY <2>1, <2>2, <2>3, Zenon
    DEF Moves, Passes, Condemns, Stores, Erases, Follows, Keeps, Forgets
<1>6. kept' \subseteq Descriptors
  <2>1. CASE Keeps(s)
    <3>1. ongoing[s].descriptor \in Descriptors
      BY <2>1, Zenon DEF Keeps, LifecycleTypes, CallIsSound
    <3> QED
      BY <2>1, <3>1, Zenon DEF Keeps, LifecycleTypes
  <2>2. CASE kept' \subseteq kept
    BY <2>2, Zenon DEF LifecycleTypes
  <2> QED
    BY <2>1, <2>2, Zenon
    DEF Moves, Passes, Derives, Condemns, Stores, Erases, Follows, Forgets
<1>7. condemned' \subseteq Descriptors
  <2>1. CASE Condemns(s)
    BY <2>1, Zenon DEF Condemns, LifecycleTypes
  <2>2. CASE condemned' = condemned
    BY <2>2, Zenon DEF LifecycleTypes
  <2> QED
    BY <2>1, <2>2, Zenon
    DEF Moves, Passes, Derives, Stores, Erases, Follows, Keeps, Forgets
<1> QED
  BY <1>2, <1>3, <1>4, <1>5, <1>6, <1>7, Zenon DEF LifecycleTypes

\* The record ids that were picked only grow.
LEMMA UsedGrows ==
  ASSUME LifecycleTypes, NEW r, used' = Append(used, r)
  PROVE  /\ Range(used') = Range(used) \cup {r}
         /\ Unique' => Unique /\ r \notin Range(used)
<1>1. used \in Seq(Records \cup {BadRecord})
  BY Zenon DEF LifecycleTypes
<1>2. /\ DOMAIN used' = DOMAIN used \cup {Len(used) + 1}
      /\ Len(used) + 1 \notin DOMAIN used
      /\ used'[Len(used) + 1] = r
      /\ \A i \in DOMAIN used : used'[i] = used[i]
  BY <1>1
<1>3. Range(used') = Range(used) \cup {r}
  BY <1>2 DEF Range
<1>4. ASSUME Unique'
      PROVE  Unique /\ r \notin Range(used)
  BY <1>2, <1>4, Zenon DEF Unique, IsInjective, Range
<1> QED
  BY <1>3, <1>4, Zenon

\* A move changes one call, and the record ids that were picked only grow.
LEMMA MoveFrame ==
  ASSUME LifecycleTypes, NEW s \in Slots, Moves(s)
  PROVE  /\ \A t \in Slots : t # s => ongoing'[t] = ongoing[t]
         /\ Range(used) \subseteq Range(used')
         /\ Unique' => Unique
<1>1. OnlyCall(s)
  BY Zenon DEF Moves, Passes, Derives, Condemns, Stores, Erases, Follows, Keeps, Forgets
<1>2. \A t \in Slots : t # s => ongoing'[t] = ongoing[t]
  BY <1>1, Zenon DEF OnlyCall, LifecycleTypes
<1>3. CASE used' = used
  BY <1>2, <1>3, Zenon DEF Unique
<1>4. ASSUME NEW r, used' = Append(used, r)
      PROVE  Range(used) \subseteq Range(used') /\ (Unique' => Unique)
  BY <1>4, UsedGrows, Zenon
<1> QED
  BY <1>2, <1>3, <1>4, Zenon
  DEF Moves, Passes, Derives, Condemns, Stores, Erases, Follows, Keeps, Forgets

\* A storage call keeps what a creation or a deletion is about.
LEMMA FollowingCall ==
  ASSUME LifecycleTypes, NEW s \in Slots, Follows(s),
         ongoing[s].stage \in {"storing", "deleting"}
  PROVE  /\ Creates(ongoing'[s]) => Creates(ongoing[s]) /\ ongoing'[s].stage = "done"
         /\ Deletes(ongoing'[s]) => Deletes(ongoing[s]) /\ ongoing'[s].stage = "done"
         /\ Creates(ongoing'[s]) \/ Deletes(ongoing'[s]) =>
              /\ ongoing'[s].descriptor = ongoing[s].descriptor
              /\ ongoing'[s].phrase = ongoing[s].phrase
<1>1. CallIsSound(ongoing[s]) /\ IsCall(ongoing[s])
  BY Zenon DEF LifecycleTypes, CallIsSound
<1>2. CASE ongoing'[s].stage = "failed"
  BY <1>2, Zenon DEF Creates, Deletes
<1>3. CASE ongoing'[s] = [ongoing[s] EXCEPT !.stage = "done"]
  <2>1. /\ ongoing'[s].stage = "done" /\ ongoing'[s].op = ongoing[s].op
        /\ ongoing'[s].descriptor = ongoing[s].descriptor
        /\ ongoing'[s].phrase = ongoing[s].phrase
    BY <1>1, <1>3, Zenon DEF IsCall
  <2> QED
    BY <1>1, <2>1, Zenon DEF CallIsSound, Creates, Deletes
<1> QED
  BY <1>2, <1>3, Zenon DEF Follows

\* Every record id of a wallet stays picked.
LEMMA PickedKept ==
  ASSUME LifecycleTypes, Picked, NEW s \in Slots, Moves(s)
  PROVE  Picked'
<1>1. /\ \A t \in Slots : t # s => ongoing'[t] = ongoing[t]
      /\ Range(used) \subseteq Range(used')
  BY MoveFrame, Zenon
<1>2. \A d \in Known' : d.record_id \in Range(used)
  BY Zenon DEF Picked, Known, Moves, Passes, Derives, Condemns, Stores, Erases, Follows,
     Keeps, Forgets
<1>3. ASSUME Creates(ongoing'[s])
      PROVE  ongoing'[s].descriptor.record_id \in Range(used')
  <2>1. CASE Derives(s)
    BY <2>1, UsedGrows, Zenon DEF Derives
  <2>2. CASE Stores(s) \/ Erases(s)
    BY <1>1, <1>3, <2>2, FollowingCall, Zenon DEF Stores, Erases, Picked
  <2>3. ~Passes(s) /\ ~Keeps(s) /\ ~Forgets(s)
    BY <1>3, IdleIsSound, Zenon DEF Passes, Keeps, Forgets
  <2>4. ~Condemns(s)
    BY <1>3, Zenon DEF Condemns, Creates, Deletes
  <2> QED
    BY <2>1, <2>2, <2>3, <2>4, Zenon DEF Moves
<1> QED
  BY <1>1, <1>2, <1>3, Zenon DEF Picked

\* As long as record ids are used once, a wallet in creation shares its record
\* with no other.
LEMMA OneWalletKept ==
  ASSUME LifecycleTypes, Picked, OneWallet, NEW s \in Slots, Moves(s), Unique'
  PROVE  OneWallet'
<1>1. \A t \in Slots : t # s => ongoing'[t] = ongoing[t]
  BY MoveFrame, Zenon
<1>2. CASE Keeps(s)
  <2>1. ~Creates(ongoing'[s]) /\ Known' = Known \cup {ongoing[s].descriptor}
    BY <1>2, IdleIsSound, Zenon DEF Keeps, Known
  <2>2. \A d \in Known : d.record_id # ongoing[s].descriptor.record_id
    BY <1>2, Zenon DEF Keeps, OneWallet
  <2>3. \A d, e \in Known' : d.record_id = e.record_id => d = e
    <3>1. SUFFICES ASSUME NEW d \in Known', NEW e \in Known', d.record_id = e.record_id
                   PROVE  d = e
      BY Zenon
    <3>2. CASE d \in Known /\ e \in Known
      BY <3>1, <3>2, Zenon DEF OneWallet
    <3>3. CASE d \notin Known \/ e \notin Known
      BY <2>1, <2>2, <3>1, <3>3, Zenon
    <3> QED
      BY <3>2, <3>3, Zenon
  <2>4. ASSUME NEW t \in Slots, Creates(ongoing'[t])
        PROVE  /\ t # s /\ ongoing'[t] = ongoing[t]
               /\ \A d \in Known' : d.record_id # ongoing[t].descriptor.record_id
    BY <1>1, <1>2, <2>1, <2>4, Zenon DEF Keeps, OneWallet
  <2> QED
    BY <2>3, <2>4, Zenon DEF OneWallet
<1>3. CASE Derives(s)
  <2>1. Known' = Known
    BY <1>3, Zenon DEF Derives, Known
  <2>2. ongoing'[s].descriptor.record_id \notin Range(used)
    BY <1>3, UsedGrows, Zenon DEF Derives
  <2> QED
    BY <1>1, <2>1, <2>2, ZenonT(30) DEF OneWallet, Picked
<1>4. CASE Stores(s) \/ Erases(s)
  <2>1. Known' = Known
    BY <1>4, Zenon DEF Stores, Erases, Follows, Known
  <2>2. Creates(ongoing'[s]) =>
          Creates(ongoing[s]) /\ ongoing'[s].descriptor = ongoing[s].descriptor
    BY <1>4, FollowingCall, Zenon DEF Stores, Erases
  <2>3. \A t \in Slots : Creates(ongoing'[t]) =>
          Creates(ongoing[t]) /\ ongoing'[t].descriptor = ongoing[t].descriptor
    BY <1>1, <2>2, Zenon
  <2>4. ASSUME NEW t \in Slots, Creates(ongoing'[t])
        PROVE  /\ \A d \in Known' : d.record_id # ongoing'[t].descriptor.record_id
               /\ \A u \in Slots : u # t /\ Creates(ongoing'[u]) =>
                    ongoing'[u].descriptor.record_id # ongoing'[t].descriptor.record_id
    <3>1. Creates(ongoing[t]) /\ ongoing'[t].descriptor = ongoing[t].descriptor
      BY <2>3, <2>4, Zenon
    <3>2. \A d \in Known' : d.record_id # ongoing'[t].descriptor.record_id
      BY <2>1, <3>1, Zenon DEF OneWallet
    <3>3. ASSUME NEW u \in Slots, u # t, Creates(ongoing'[u])
          PROVE  ongoing'[u].descriptor.record_id # ongoing'[t].descriptor.record_id
      <4>1. Creates(ongoing[u]) /\ ongoing'[u].descriptor = ongoing[u].descriptor
        BY <2>3, <3>3, Zenon
      <4> QED
        BY <3>1, <3>3, <4>1, Zenon DEF OneWallet
    <3> QED
      BY <3>2, <3>3, Zenon
  <2> QED
    BY <2>1, <2>4, Zenon DEF OneWallet
<1>5. CASE Passes(s) \/ Condemns(s) \/ Forgets(s)
  <2>1. Known' \subseteq Known
    BY <1>5, Zenon DEF Passes, Condemns, Forgets, Known
  <2>2. ~Creates(ongoing'[s])
    <3>1. CASE Condemns(s)
      BY <3>1, Zenon DEF Condemns, Creates, Deletes
    <3> QED
      BY <1>5, <3>1, IdleIsSound, Zenon DEF Passes, Forgets
  <2> QED
    BY <1>1, <2>1, <2>2, Zenon DEF OneWallet
<1> QED
  BY <1>2, <1>3, <1>4, <1>5, Zenon DEF Moves

\* Two known descriptors with one reference are the same, and a wallet in creation
\* has a reference of its own.
LEMMA OneReference ==
  ASSUME LifecycleTypes, OneWallet
  PROVE  /\ \A d, e \in Known : d.secret_ref = e.secret_ref => d = e
         /\ \A s \in Slots : Creates(ongoing[s]) =>
              /\ \A d \in Known : d.secret_ref # ongoing[s].descriptor.secret_ref
              /\ \A t \in Slots : t # s /\ Creates(ongoing[t]) =>
                   ongoing[t].descriptor.secret_ref # ongoing[s].descriptor.secret_ref
<1>1. \A d \in Known : d \in Descriptors
  BY Zenon DEF LifecycleTypes, Known
<1>2. \A s \in Slots : Creates(ongoing[s]) => ongoing[s].descriptor \in Descriptors
  BY Zenon DEF LifecycleTypes, CallIsSound
<1>3. \A d, e \in Descriptors : d.secret_ref = e.secret_ref => d.record_id = e.record_id
  BY DescriptorFields, RefOfRecord, Zenon
<1>4. \A d, e \in Known : d.secret_ref = e.secret_ref => d = e
  BY <1>1, <1>3, Zenon DEF OneWallet
<1>5. ASSUME NEW s \in Slots, Creates(ongoing[s])
      PROVE  /\ \A d \in Known : d.secret_ref # ongoing[s].descriptor.secret_ref
             /\ \A t \in Slots : t # s /\ Creates(ongoing[t]) =>
                  ongoing[t].descriptor.secret_ref # ongoing[s].descriptor.secret_ref
  <2>1. ongoing[s].descriptor \in Descriptors
    BY <1>2, <1>5, Zenon
  <2>2. \A d \in Known : d.secret_ref # ongoing[s].descriptor.secret_ref
    BY <1>1, <1>3, <1>5, <2>1, ZenonT(30) DEF OneWallet
  <2>3. ASSUME NEW t \in Slots, t # s, Creates(ongoing[t])
        PROVE  ongoing[t].descriptor.secret_ref # ongoing[s].descriptor.secret_ref
    <3>1. ongoing[t].descriptor \in Descriptors
      BY <1>2, <2>3, Zenon
    <3>2. ongoing[t].descriptor.record_id # ongoing[s].descriptor.record_id
      BY <1>5, <2>3, Zenon DEF OneWallet
    <3> QED
      BY <1>3, <2>1, <3>1, <3>2, Zenon
  <2> QED
    BY <2>2, <2>3, Zenon
<1> QED
  BY <1>4, <1>5, Zenon

\* A write touches one reference.
LEMMA OneWrite ==
  ASSUME LifecycleTypes, NEW d \in Descriptors, NEW v,
         protected' = [protected EXCEPT ![d.secret_ref] = v]
  PROVE  /\ protected'[d.secret_ref] = v
         /\ \A e \in Descriptors :
              e.secret_ref # d.secret_ref => protected'[e.secret_ref] = protected[e.secret_ref]
<1>1. \A e \in Descriptors : e.secret_ref \in Refs
  BY DescriptorFields, Zenon
<1> QED
  BY <1>1, Zenon DEF LifecycleTypes

\* What storing a secret leaves behind.
LEMMA StoredAt ==
  ASSUME LifecycleTypes, NEW s \in Slots, Stores(s), ongoing[s].descriptor \in Descriptors
  PROVE  LET d == ongoing[s].descriptor IN
         /\ protected'[d.secret_ref] = {ongoing[s].phrase}
         /\ \A e \in Descriptors :
              e.secret_ref # d.secret_ref => protected'[e.secret_ref] = protected[e.secret_ref]
<1>1. protected' = [protected EXCEPT ![ongoing[s].descriptor.secret_ref] = {ongoing[s].phrase}]
  BY Zenon DEF Stores
<1> QED
  BY <1>1, OneWrite, Zenon

\* The same of the deletion.
LEMMA ErasedAt ==
  ASSUME LifecycleTypes, NEW s \in Slots, Erases(s), ongoing[s].descriptor \in Descriptors
  PROVE  LET d == ongoing[s].descriptor IN
         /\ protected'[d.secret_ref] = {}
         /\ \A e \in Descriptors :
              e.secret_ref # d.secret_ref => protected'[e.secret_ref] = protected[e.secret_ref]
<1>1. protected' = [protected EXCEPT ![ongoing[s].descriptor.secret_ref] = {}]
  BY Zenon DEF Erases
<1> QED
  BY <1>1, OneWrite, Zenon

\* The secret of a wallet that was created is there, also after steps of others.
LEMMA CreatedInStep ==
  ASSUME LifecycleTypes, LifecycleTypes', OneWallet, InStep, NEW s \in Slots, Moves(s),
         NEW t \in Slots, Creates(ongoing'[t]), ongoing'[t].stage = "done"
  PROVE  ongoing'[t].phrase \in protected'[ongoing'[t].descriptor.secret_ref]
<1>1. \A u \in Slots : u # s => ongoing'[u] = ongoing[u]
  BY MoveFrame, Zenon
<1>2. CASE t = s
  <2>1. Stores(s) \/ Erases(s)
    BY <1>2, IdleIsSound, Zenon
    DEF Moves, Passes, Derives, Condemns, Keeps, Forgets, Creates, Deletes
  <2>2. Creates(ongoing[s])
    BY <1>2, <2>1, FollowingCall, Zenon DEF Stores, Erases
  <2>3. Stores(s)
    BY <2>1, <2>2, Zenon DEF Erases, Creates
  <2>4. /\ ongoing'[s].descriptor = ongoing[s].descriptor
        /\ ongoing'[s].phrase = ongoing[s].phrase
    BY <1>2, <2>3, FollowingCall, Zenon DEF Stores
  <2>5. ongoing[s].descriptor \in Descriptors
    BY <2>2, Zenon DEF LifecycleTypes, CallIsSound
  <2>6. protected'[ongoing[s].descriptor.secret_ref] = {ongoing[s].phrase}
    BY <2>3, <2>5, StoredAt, Zenon
  <2> QED
    BY <1>2, <2>4, <2>6, Zenon
<1>3. CASE t # s
  <2>1. /\ ongoing'[t] = ongoing[t] /\ Creates(ongoing[t]) /\ ongoing[t].stage = "done"
        /\ ongoing[t].descriptor \in Descriptors
    BY <1>1, <1>3, Zenon DEF LifecycleTypes, CallIsSound
  <2>2. ongoing[t].phrase \in protected[ongoing[t].descriptor.secret_ref]
    BY <2>1, Zenon DEF InStep
  <2>3. CASE Stores(s)
    <3>1. Creates(ongoing[s]) /\ ongoing[s].descriptor \in Descriptors
      BY <2>3, Zenon DEF Stores, LifecycleTypes, CallIsSound
    <3>2. ongoing[t].descriptor.secret_ref # ongoing[s].descriptor.secret_ref
      BY <1>3, <2>1, <3>1, OneReference, Zenon
    <3>3. protected'[ongoing[t].descriptor.secret_ref] = protected[ongoing[t].descriptor.secret_ref]
      BY <2>1, <2>3, <3>1, <3>2, StoredAt, Zenon
    <3> QED
      BY <2>1, <2>2, <3>3, Zenon
  <2>4. CASE Erases(s)
    <3>1. Deletes(ongoing[s]) /\ ongoing[s].descriptor \in Descriptors
      BY <2>4, Zenon DEF Erases, LifecycleTypes, CallIsSound
    <3>2. ongoing[s].descriptor \in Known
      BY <3>1, Zenon DEF InStep, Known
    <3>3. ongoing[t].descriptor.secret_ref # ongoing[s].descriptor.secret_ref
      BY <2>1, <3>2, OneReference, Zenon
    <3>4. protected'[ongoing[t].descriptor.secret_ref] = protected[ongoing[t].descriptor.secret_ref]
      BY <2>1, <2>4, <3>1, <3>3, ErasedAt, Zenon
    <3> QED
      BY <2>1, <2>2, <3>4, Zenon
  <2>5. CASE protected' = protected
    BY <2>1, <2>2, <2>5, Zenon
  <2> QED
    BY <2>3, <2>4, <2>5, Zenon DEF Moves, Passes, Derives, Condemns, Keeps, Forgets
<1> QED
  BY <1>2, <1>3, Zenon

\* A wallet whose deletion was asked for loses its secret once the deletion has
\* succeeded, and no call brings it back.
LEMMA DeletedInStep ==
  ASSUME LifecycleTypes, OneWallet, InStep, NEW s \in Slots, Moves(s),
         NEW t \in Slots, Deletes(ongoing'[t])
  PROVE  /\ ongoing'[t].descriptor \in condemned'
         /\ ongoing'[t].stage = "done" => protected'[ongoing'[t].descriptor.secret_ref] = {}
<1>1. /\ \A u \in Slots : u # s => ongoing'[u] = ongoing[u]
      /\ condemned \subseteq condemned'
  BY MoveFrame, Zenon
  DEF Moves, Passes, Derives, Condemns, Stores, Erases, Follows, Keeps, Forgets
<1>2. CASE t = s
  <2>1. CASE Condemns(s)
    BY <1>2, <2>1, Zenon DEF Condemns
  <2>2. CASE Stores(s) \/ Erases(s)
    <3>1. Deletes(ongoing[s]) /\ ongoing'[s].descriptor = ongoing[s].descriptor
      BY <1>2, <2>2, FollowingCall, Zenon DEF Stores, Erases
    <3>2. Erases(s)
      BY <2>2, <3>1, Zenon DEF Stores, Deletes
    <3>3. ongoing[s].descriptor \in Descriptors /\ ongoing[s].descriptor \in condemned
      BY <3>1, Zenon DEF LifecycleTypes, CallIsSound, InStep
    <3>4. protected'[ongoing[s].descriptor.secret_ref] = {}
      BY <3>2, <3>3, ErasedAt, Zenon
    <3> QED
      BY <1>1, <1>2, <3>1, <3>3, <3>4, Zenon
  <2>3. ~Passes(s) /\ ~Keeps(s) /\ ~Forgets(s)
    BY <1>2, IdleIsSound, Zenon DEF Passes, Keeps, Forgets
  <2>4. ~Derives(s)
    BY <1>2, Zenon DEF Derives, Creates, Deletes
  <2> QED
    BY <2>1, <2>2, <2>3, <2>4, Zenon DEF Moves
<1>3. CASE t # s
  <2>1. ongoing'[t] = ongoing[t] /\ Deletes(ongoing[t]) /\ ongoing[t].descriptor \in condemned
    BY <1>1, <1>3, Zenon DEF InStep
  <2>2. ongoing[t].descriptor \in Known /\ ongoing[t].descriptor \in Descriptors
    BY <2>1, Zenon DEF Known, LifecycleTypes
  <2>3. ASSUME ongoing[t].stage = "done"
        PROVE  protected'[ongoing[t].descriptor.secret_ref] = {}
    <3>1. protected[ongoing[t].descriptor.secret_ref] = {}
      BY <2>1, <2>3, Zenon DEF InStep
    <3>2. CASE Stores(s)
      <4>1. Creates(ongoing[s]) /\ ongoing[s].descriptor \in Descriptors
        BY <3>2, Zenon DEF Stores, LifecycleTypes, CallIsSound
      <4>2. ongoing[t].descriptor.secret_ref # ongoing[s].descriptor.secret_ref
        BY <2>2, <4>1, OneReference, Zenon
      <4> QED
        BY <2>2, <3>1, <3>2, <4>1, <4>2, StoredAt, Zenon
    <3>3. CASE Erases(s)
      <4>1. ongoing[s].descriptor \in Descriptors
        BY <3>3, Zenon DEF Erases, LifecycleTypes, CallIsSound
      <4> QED
        BY <2>2, <3>1, <3>3, <4>1, ErasedAt, Zenon
    <3>4. CASE protected' = protected
      BY <3>1, <3>4, Zenon
    <3> QED
      BY <3>2, <3>3, <3>4, Zenon DEF Moves, Passes, Derives, Condemns, Keeps, Forgets
  <2> QED
    BY <1>1, <2>1, <2>3, Zenon
<1> QED
  BY <1>2, <1>3, Zenon

\* A descriptor that is kept opens its own wallet after the step.
LEMMA KeptOpensKept ==
  ASSUME LifecycleTypes, OneWallet, InStep, NEW s \in Slots, Moves(s),
         NEW d \in kept' \ condemned'
  PROVE  \E phrase \in protected'[d.secret_ref] : unlock_wallet(phrase, d)
<1>1. condemned \subseteq condemned'
  BY Zenon DEF Moves, Passes, Derives, Condemns, Stores, Erases, Follows, Keeps, Forgets
<1>2. CASE d \in kept
  <2>1. PICK phrase \in protected[d.secret_ref] : unlock_wallet(phrase, d)
    BY <1>1, <1>2, Zenon DEF InStep, KeptOpens
  <2>2. d \in Known /\ d \in Descriptors
    BY <1>2, Zenon DEF Known, LifecycleTypes
  <2>3. protected'[d.secret_ref] = protected[d.secret_ref]
    <3>1. CASE Stores(s)
      <4>1. Creates(ongoing[s]) /\ ongoing[s].descriptor \in Descriptors
        BY <3>1, Zenon DEF Stores, LifecycleTypes, CallIsSound
      <4>2. d.secret_ref # ongoing[s].descriptor.secret_ref
        BY <2>2, <4>1, OneReference, Zenon
      <4> QED
        BY <2>2, <3>1, <4>1, <4>2, StoredAt, Zenon
    <3>2. CASE Erases(s)
      <4>1. Deletes(ongoing[s]) /\ ongoing[s].descriptor \in Descriptors
        BY <3>2, Zenon DEF Erases, LifecycleTypes, CallIsSound
      <4>2. ongoing[s].descriptor \in condemned /\ ongoing[s].descriptor \in Known
        BY <4>1, Zenon DEF InStep, Known
      <4>3. d.secret_ref # ongoing[s].descriptor.secret_ref
        BY <1>1, <2>2, <4>2, OneReference, Zenon
      <4> QED
        BY <2>2, <3>2, <4>1, <4>3, ErasedAt, Zenon
    <3>3. CASE protected' = protected
      BY <3>3, Zenon
    <3> QED
      BY <3>1, <3>2, <3>3, Zenon DEF Moves, Passes, Derives, Condemns, Keeps, Forgets
  <2> QED
    BY <2>1, <2>3, Zenon
<1>3. CASE d \notin kept
  <2>1. Keeps(s) /\ d = ongoing[s].descriptor
    BY <1>3, Zenon
    DEF Moves, Passes, Derives, Condemns, Stores, Erases, Follows, Keeps, Forgets
  <2>2. /\ ongoing[s].phrase \in protected[d.secret_ref]
        /\ unlock_wallet(ongoing[s].phrase, d)
    BY <2>1, Zenon DEF Keeps, InStep, LifecycleTypes, CallIsSound
  <2> QED
    BY <2>1, <2>2, Zenon DEF Keeps
<1> QED
  BY <1>2, <1>3, Zenon

\* A descriptor that is forgotten leaves no secret after the step.
LEMMA ForgottenKept ==
  ASSUME LifecycleTypes, OneWallet, InStep, NEW s \in Slots, Moves(s),
         NEW d \in condemned' \ kept'
  PROVE  protected'[d.secret_ref] = {}
<1>1. CASE d \in condemned \ kept
  <2>1. /\ protected[d.secret_ref] = {}
        /\ d \in Known /\ d \in Descriptors
    BY <1>1, Zenon DEF InStep, ForgottenIsGone, Known, LifecycleTypes
  <2>2. CASE Stores(s)
    <3>1. Creates(ongoing[s]) /\ ongoing[s].descriptor \in Descriptors
      BY <2>2, Zenon DEF Stores, LifecycleTypes, CallIsSound
    <3>2. d.secret_ref # ongoing[s].descriptor.secret_ref
      BY <2>1, <3>1, OneReference, Zenon
    <3> QED
      BY <2>1, <2>2, <3>1, <3>2, StoredAt, Zenon
  <2>3. CASE Erases(s)
    <3>1. ongoing[s].descriptor \in Descriptors
      BY <2>3, Zenon DEF Erases, LifecycleTypes, CallIsSound
    <3> QED
      BY <2>1, <2>3, <3>1, ErasedAt, Zenon
  <2>4. CASE protected' = protected
    BY <2>1, <2>4, Zenon
  <2> QED
    BY <2>2, <2>3, <2>4, Zenon DEF Moves, Passes, Derives, Condemns, Keeps, Forgets
<1>2. CASE d \in condemned /\ d \in kept
  <2>1. Forgets(s) /\ d = ongoing[s].descriptor
    BY <1>2, Zenon
    DEF Moves, Passes, Derives, Condemns, Stores, Erases, Follows, Keeps, Forgets
  <2> QED
    BY <2>1, Zenon DEF Forgets, InStep
<1>3. d \in condemned
  BY Zenon
  DEF Moves, Passes, Derives, Condemns, Stores, Erases, Follows, Keeps, Forgets
<1> QED
  BY <1>1, <1>2, <1>3, Zenon

\* The storage still follows the calls after the step.
LEMMA InStepKept ==
  ASSUME LifecycleTypes, LifecycleTypes', OneWallet, InStep, NEW s \in Slots, Moves(s)
  PROVE  InStep'
<1>1. \A t \in Slots : Creates(ongoing'[t]) /\ ongoing'[t].stage = "done" =>
        ongoing'[t].phrase \in protected'[ongoing'[t].descriptor.secret_ref]
  BY CreatedInStep, Zenon
<1>2. \A t \in Slots : Deletes(ongoing'[t]) =>
        /\ ongoing'[t].descriptor \in condemned'
        /\ ongoing'[t].stage = "done" => protected'[ongoing'[t].descriptor.secret_ref] = {}
  BY DeletedInStep, Zenon
<1>3. KeptOpens'
  BY KeptOpensKept, Zenon DEF KeptOpens
<1>4. ForgottenIsGone'
  BY ForgottenKept, Zenon DEF ForgottenIsGone
<1> QED
  BY <1>1, <1>2, <1>3, <1>4, Zenon DEF InStep

\* A crash ends every call and leaves what is stored and kept.
LEMMA CrashKeeps ==
  ASSUME LifecycleInv, Crash
  PROVE  LifecycleInv'
<1>1. /\ ongoing' = [s \in Slots |-> idle]
      /\ UNCHANGED <<protected, kept, condemned, used>>
  BY Zenon DEF Crash
<1>2. /\ DOMAIN ongoing' = Slots
      /\ ongoing' = [s \in Slots |-> ongoing'[s]]
      /\ \A s \in Slots : ongoing'[s] = idle
  BY <1>1, Zenon
<1>3. \A s \in Slots :
        CallIsSound(ongoing'[s]) /\ ~Creates(ongoing'[s]) /\ ~Deletes(ongoing'[s])
  BY <1>2, IdleIsSound, Zenon
<1>4. LifecycleTypes'
  BY <1>1, <1>2, <1>3, Zenon DEF LifecycleInv, LifecycleTypes
<1>5. Picked' /\ Known' = Known
  BY <1>1, <1>3, Zenon DEF LifecycleInv, Picked, Known
<1>6. Unique' => OneWallet' /\ InStep'
  BY <1>1, <1>3, <1>5, Zenon
  DEF LifecycleInv, Unique, OneWallet, InStep, KeptOpens, ForgottenIsGone
<1> QED
  BY <1>4, <1>5, <1>6, Zenon DEF LifecycleInv

\* Nothing is stored, kept or running at first.
LEMMA LifecycleStarts ==
  ASSUME LifecycleInit
  PROVE  LifecycleInv
<1>1. /\ DOMAIN ongoing = Slots
      /\ ongoing = [s \in Slots |-> ongoing[s]]
      /\ \A s \in Slots : ongoing[s] = idle
  BY Zenon DEF LifecycleInit
<1>2. \A s \in Slots :
        CallIsSound(ongoing[s]) /\ ~Creates(ongoing[s]) /\ ~Deletes(ongoing[s])
  BY <1>1, IdleIsSound, Zenon
<1>3. /\ protected \in [Refs -> SUBSET Secrets]
      /\ used \in Seq(Records \cup {BadRecord})
  BY DEF LifecycleInit, Refs
<1>4. kept = {} /\ condemned = {} /\ Known = {}
  BY Zenon DEF LifecycleInit, Known
<1>5. LifecycleTypes /\ Picked
  BY <1>1, <1>2, <1>3, <1>4, Zenon DEF LifecycleTypes, Picked
<1>6. OneWallet /\ InStep
  BY <1>2, <1>4, Zenon DEF OneWallet, InStep, KeptOpens, ForgottenIsGone
<1> QED
  BY <1>5, <1>6, Zenon DEF LifecycleInv

\* Every step of the service, the storage and the application keeps the invariant.
LEMMA LifecycleStep ==
  ASSUME LifecycleInv, [LifecycleNext]_lifecycleVars
  PROVE  LifecycleInv'
<1>1. ASSUME NEW s \in Slots, Moves(s)
      PROVE  LifecycleInv'
  <2>1. LifecycleTypes'
    BY <1>1, TypesKept, Zenon DEF LifecycleInv
  <2>2. Picked'
    BY <1>1, PickedKept, Zenon DEF LifecycleInv
  <2>3. ASSUME Unique'
        PROVE  OneWallet' /\ InStep'
    <3>1. OneWallet /\ InStep
      BY <1>1, <2>3, MoveFrame, Zenon DEF LifecycleInv
    <3>2. OneWallet'
      BY <1>1, <2>3, <3>1, OneWalletKept, Zenon DEF LifecycleInv
    <3>3. InStep'
      BY <1>1, <2>1, <3>1, InStepKept, Zenon DEF LifecycleInv
    <3> QED
      BY <3>2, <3>3, Zenon
  <2> QED
    BY <2>1, <2>2, <2>3, Zenon DEF LifecycleInv
<1>2. CASE UNCHANGED lifecycleVars
  <2>1. UNCHANGED <<protected, kept, condemned, ongoing, used>>
    BY <1>2, Zenon DEF lifecycleVars
  <2>2. LifecycleTypes' /\ Picked' /\ Known' = Known /\ (Unique' => Unique)
    BY <2>1, Zenon DEF LifecycleInv, LifecycleTypes, Picked, Known, Unique
  <2>3. OneWallet /\ InStep => OneWallet' /\ InStep'
    BY <2>1, <2>2, Zenon DEF OneWallet, InStep, KeptOpens, ForgottenIsGone
  <2> QED
    BY <2>2, <2>3, Zenon DEF LifecycleInv
<1> QED
  BY <1>1, <1>2, StepMoves, CrashKeeps, Zenon DEF LifecycleInv

-----------------------------------------------------------------------------
(* Records are true *)

\* The secret that create_wallet, import_wallet and the calls that unlock use is
\* the one of the wallet that was asked for, also with reused record ids; and as
\* long as no record id was used twice, what is kept opens its own wallet and
\* what was deleted and forgotten leaves no secret: for any number of records,
\* networks, phrases, concurrent calls, storage failures and crashes.
THEOREM RecordsTrue == LifecycleSpec => []RecordsAreTrue
<1>1. LifecycleInit => LifecycleInv
  BY LifecycleStarts, Zenon
<1>2. LifecycleInv /\ [LifecycleNext]_lifecycleVars => LifecycleInv'
  BY LifecycleStep, Zenon
<1>3. LifecycleInv => RecordsAreTrue
  <2>1. SUFFICES ASSUME LifecycleInv
                 PROVE  RecordsAreTrue
    BY Zenon
  <2>2. SecretOfTheWallet
    BY <2>1, Zenon
    DEF LifecycleInv, LifecycleTypes, CallIsSound, UsesOwnSecret, SecretOfTheWallet
  <2> QED
    BY <2>1, <2>2, Zenon DEF LifecycleInv, InStep, RecordsAreTrue
<1> QED
  BY <1>1, <1>2, <1>3, PTL DEF LifecycleSpec
=============================================================================
