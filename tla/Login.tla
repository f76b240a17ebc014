-------------------------------- MODULE Login --------------------------------
(***************************************************************************)
(* The two ways of signing in to the provider, up to the credential that   *)
(* is then stored (Credentials): the browser's loopback callback and the   *)
(* device code that is polled for (runtime/auth.rs, browser.rs, device.rs, *)
(* protocol.rs, transport.rs).                                             *)
(*                                                                         *)
(* Time counts in units of the five seconds a slow_down adds; a request    *)
(* may take any time up to its deadlines, fail at once or at the end.      *)
(***************************************************************************)
EXTENDS Integers, Sequences

CONSTANTS
  AuthOverall,        \* AUTH_OVERALL_DEADLINE
  DeviceOverall,      \* DEVICE_POLL_OVERALL_DEADLINE
  MaxPollInterval,    \* MAX_OAUTH_POLL_INTERVAL_SECONDS
  ConnectionDeadline  \* LOOPBACK_CALLBACK_CONNECTION_DEADLINE

VARIABLES
  mode,      \* AuthLoginMode
  at,        \* where the login is
  elapsed,   \* since the login's clock started
  interval,  \* device: the interval polled at
  asked,     \* device: the interval the server asked for last
  polled,    \* device: when the last poll was answered
  page       \* browser: what the last page said

vars == <<mode, at, elapsed, interval, asked, polled, page>>

Min(a, b) == IF a < b THEN a ELSE b

Failed == [ok |-> FALSE]
Parsed(v) == [ok |-> TRUE, value |-> v]

\* set_once over the callback's pairs: a repeated state or code is refused; other names are ignored.
ValuesOf(query, name) == {i \in DOMAIN query : query[i][1] = name}

\* parse_oauth_callback: this login's state, and a code that is not empty.
parse_oauth_callback(query, expected) ==
  LET states == ValuesOf(query, "state")
      codes == ValuesOf(query, "code")
  IN IF \E i, j \in DOMAIN query : i # j /\ query[i][1] = query[j][1] /\ query[i][1] \in {"state", "code"} THEN Failed
     ELSE IF \A i \in states : query[i][2] # expected THEN Failed
     ELSE IF \A i \in codes : query[i][2] = "" THEN Failed
     ELSE Parsed(query[CHOOSE i \in codes : TRUE][2])

\* What a browser, or anything else that reaches the port, may send: the query of
\* GET /auth/callback, or a request that is none (too long, cut off, another target).
NotACallback == <<<<"other", "">>>>
Queries ==
  {NotACallback, <<<<"state", "mine">>, <<"code", "c">>>>, <<<<"state", "mine">>, <<"code", "">>>>, <<<<"code", "c">>>>,
   <<<<"state", "else">>, <<"code", "c">>>>, <<<<"state", "mine">>, <<"state", "mine">>, <<"code", "c">>>>,
   <<<<"state", "mine">>, <<"error", "denied">>>>}

\* Any request that succeeds returns within its deadlines; one that does not fails by then.
Took(deadline) == elapsed' \in elapsed .. elapsed + deadline

Fail == at' = "failed"

\* bounded_positive_seconds.
Bounded(n, maximum) == n > 0 /\ n <= maximum

\* browser_login: the port is bound, the URL presented and the browser opened; each may fail.
BrowserStart ==
  /\ mode = "browser" /\ at = "start"
  /\ \/ at' = "listening" /\ elapsed' = 0
     \/ Fail /\ UNCHANGED elapsed
  /\ UNCHANGED <<mode, interval, asked, polled, page>>

\* read_loopback_callback_until: no connection is waited for past its own deadline or the login's.
Reading == Min(ConnectionDeadline, AuthOverall - elapsed)

\* One connection: its page says whether the callback was taken, and a refused one is not the end.
Accept ==
  /\ mode = "browser" /\ at = "listening" /\ elapsed < AuthOverall
  /\ Took(Reading)
  /\ \E query \in Queries : LET result == parse_oauth_callback(query, "mine") IN
       /\ page' = IF result.ok THEN "200" ELSE "400"
       /\ at' = IF result.ok THEN "exchange" ELSE "listening"
  /\ UNCHANGED <<mode, interval, asked, polled>>

\* Nobody connected: the listener sleeps, and gives up at the overall deadline.
Listen ==
  /\ mode = "browser" /\ at = "listening"
  /\ IF elapsed >= AuthOverall THEN Fail /\ UNCHANGED elapsed ELSE elapsed' = elapsed + 1 /\ UNCHANGED at
  /\ UNCHANGED <<mode, interval, asked, polled, page>>

\* parse_device_authorization_body: an interval out of bounds, or another verification URI, is refused.
DeviceStart ==
  /\ mode = "device" /\ at = "start"
  /\ Took(AuthOverall)
  /\ \/ \E i \in 0 .. MaxPollInterval + 1, known \in BOOLEAN :
          IF Bounded(i, MaxPollInterval) /\ known
          THEN at' = "polling" /\ interval' = i /\ asked' = i /\ polled' = elapsed'
          ELSE Fail /\ UNCHANGED <<interval, asked, polled>>
     \/ Fail /\ UNCHANGED <<interval, asked, polled>>
  /\ UNCHANGED <<mode, page>>

\* device_login_remaining: nothing is left at the deadline itself.
device_login_remaining(now) == IF now < DeviceOverall THEN Parsed(DeviceOverall - now) ELSE Failed

\* Mutant: a request gets its ordinary deadlines however little of the login is left.
device_login_http_deadlines_whole(remaining) == AuthOverall

\* device_login_http_deadlines.
device_login_http_deadlines(remaining) == Min(AuthOverall, remaining)

\* Mutant: the interval stays as the server first asked it.
next_poll_interval_same(current) == Parsed(current)

\* next_poll_interval on a slow_down: one unit more, up to the maximum.
next_poll_interval(current) ==
  IF Bounded(current, MaxPollInterval) /\ current + 1 <= MaxPollInterval THEN Parsed(current + 1) ELSE Failed

\* parse_device_poll_body: exactly one of the two errors and no code, or a code with its verifier.
Polls == [error : {"none", "authorization_pending", "slow_down", "other"}, code : BOOLEAN, verifier : BOOLEAN]
parse_device_poll_body(body) ==
  IF body.error = "authorization_pending" /\ ~body.code /\ ~body.verifier THEN "Pending"
  ELSE IF body.error = "slow_down" /\ ~body.code /\ ~body.verifier THEN "SlowDown"
  ELSE IF body.error = "none" /\ body.code /\ body.verifier THEN "Authorization" ELSE "malformed"

\* The wait before a poll: the interval, or what is left of the login.
Waited == elapsed + Min(interval, device_login_remaining(elapsed).value)

Wait ==
  /\ mode = "device" /\ at = "polling"
  /\ IF device_login_remaining(elapsed).ok THEN elapsed' = Waited /\ at' = "poll" ELSE Fail /\ UNCHANGED elapsed
  /\ UNCHANGED <<mode, interval, asked, polled, page>>

\* One poll and its answer.
Poll ==
  /\ mode = "device" /\ at = "poll"
  /\ IF ~device_login_remaining(elapsed).ok THEN Fail /\ UNCHANGED <<elapsed, interval, asked, polled>>
     ELSE /\ Took(device_login_http_deadlines(device_login_remaining(elapsed).value))
          /\ polled' = elapsed'
          /\ \/ \E body \in Polls : LET answer == parse_device_poll_body(body) IN
                  CASE answer = "Pending" -> at' = "polling" /\ UNCHANGED <<interval, asked>>
                    [] answer = "SlowDown" ->
                         /\ asked' = asked + 1
                         /\ IF next_poll_interval(interval).ok
                            THEN at' = "polling" /\ interval' = next_poll_interval(interval).value
                            ELSE Fail /\ UNCHANGED interval
                    [] answer = "Authorization" -> at' = "exchange" /\ UNCHANGED <<interval, asked>>
                    [] answer = "malformed" -> Fail /\ UNCHANGED <<interval, asked>>
             \/ Fail /\ UNCHANGED <<interval, asked>>
  /\ UNCHANGED <<mode, page>>

\* exchange_authorization_code and parse_token_body: a credential, or the login failed.
Exchange ==
  /\ at = "exchange"
  /\ IF mode = "device" /\ ~device_login_remaining(elapsed).ok THEN Fail /\ UNCHANGED elapsed
     ELSE /\ Took(IF mode = "device" THEN device_login_http_deadlines(device_login_remaining(elapsed).value) ELSE AuthOverall)
          /\ at' \in {"authorised", "failed"}
  /\ UNCHANGED <<mode, interval, asked, polled, page>>

Init ==
  /\ mode \in {"browser", "device"}
  /\ at = "start" /\ elapsed = 0 /\ interval = 1 /\ asked = 1 /\ polled = 0 /\ page = "none"

Next == BrowserStart \/ Accept \/ Listen \/ DeviceStart \/ Wait \/ Poll \/ Exchange

Spec == Init /\ [][Next]_vars

------------------------------------------------------------------------------
\* A login is over by its deadline: the device's by its overall one, whatever
\* its requests take, and the browser's by the listener's and the exchange's.
EndsInTime == elapsed <= IF mode = "device" THEN DeviceOverall ELSE AuthOverall + AuthOverall

\* The server is never polled sooner than it asked: every poll is sent at
\* least the asked interval after the answer before it, also after a
\* slow_down and also when the login has less than an interval left.
PollsPaced == at = "poll" /\ device_login_remaining(elapsed).ok => elapsed - polled >= asked
=============================================================================
