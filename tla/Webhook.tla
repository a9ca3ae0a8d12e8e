------------------------------- MODULE Webhook ------------------------------
(***************************************************************************)
(* internal/webhook: what the executor makes of a task, of the receiver's  *)
(* name and of its answer.  A verdict is "ok", "again" (an error that may  *)
(* be retried) or "never" (retry.ErrNoRetry).                              *)
(*                                                                         *)
(* A URL is a record of what validateURL looks at; one that is missing or  *)
(* cannot be parsed has parsed = FALSE.  A host is a literal address, by   *)
(* its kind, or a name.                                                    *)
(***************************************************************************)
EXTENDS Naturals

CONSTANTS
    MaxRedirects, AllowPrivateNetworks

Addr == {"public", "private"}

\* External: the resolver's answer; {} is a failed lookup, or no address.
Resolution == SUBSET Addr

validateAddr(a) == AllowPrivateNetworks \/ a = "public"

validateURL(url, addrs) ==
    /\ url.scheme \in {"http", "https"}
    /\ ~url.userinfo
    /\ url.host \notin {"", "localhost"}
    /\ IF url.host \in Addr THEN validateAddr(url.host)
       ELSE addrs # {} /\ \A a \in addrs : validateAddr(a)

\* The part of Handler before the request; addrs is what the resolver says.
Accepts(task, addrs) ==
    /\ task.url.parsed /\ validateURL(task.url, addrs)
    /\ task.method \in {"", "POST", "PUT", "PATCH"}

\* Whether Accepts depends on the resolver, or the task can never be delivered.
Deliverable(task) == Accepts(task, {"public"})

\* Answers: the status classes the code tells apart.  A "307" (or 308) is
\* repeated with its body.  A "302" (or 301, 303) is followed by a GET without one
\* (external, net/http).  "lost" is an error of the transport or a timeout.
Answer == {"2xx", "302", "307", "4xx", "408", "429", "5xx", "lost"}
Redirect == {"302", "307"}

\* CheckRedirect stops when the requests made so far are MaxRedirects, so that
\* one redirect fewer is followed.
Follows(answer, requests) == answer \in Redirect /\ requests < MaxRedirects

\* Plausible bug: any answer below 400 counts as delivered.
VerdictBelow400(answer) ==
    CASE answer \in {"2xx", "302", "307"} -> "ok"
      [] answer \in {"408", "429", "5xx", "lost"} -> "again"
      [] OTHER -> "never"

\* The end of Handler, for an answer that is not followed.
Verdict(answer) ==
    CASE answer = "2xx" -> "ok"
      [] answer \in {"408", "429", "5xx", "lost"} -> "again"
      [] OTHER -> "never"

=============================================================================
