----------------------------- MODULE HttpClient -----------------------------
(***************************************************************************)
(* How the HTTP adapter tells that a call has failed: opencode.ts posts a  *)
(* request twice at most, and opencode-session-adapter.ts,                 *)
(* remote-mappers.ts and domain/errors.ts turn what axios says into an     *)
(* error code of the domain.                                               *)
(*                                                                         *)
(* A failure is what axios knows of it: the code of the transport, the     *)
(* status of the response (0: there is none) and the code in its body.     *)
(***************************************************************************)
EXTENDS Integers, Sequences

Failure(transport, status, code) ==
    [transport |-> transport, status |-> status, code |-> code]

\* The server may or may not have taken the request: no answer in time, or an
\* answer that says that the server broke.
Timeout == Failure("timeout", 0, "none")
Broken == Failure("none", 500, "none")
\* Nobody listens; the request is not taken.
ConnectionRefused == Failure("refused", 0, "none")
\* The server refuses the request.
NotFound == Failure("none", 404, "SESSION_NOT_FOUND")
Mismatch == Failure("none", 409, "SESSION_PROJECT_MISMATCH")

\* postWithShortRetry
MaxAttempts == 2

\* shouldRetry
ShouldRetry(f) == f.transport = "timeout" \/ f.status >= 500

\* normalizeUpstreamErrorCode
Normalized(code) ==
    CASE code = "NOT_FOUND" -> "SESSION_NOT_FOUND"
      [] code = "UPSTREAM_TIMEOUT" -> "TIMEOUT"
      [] code = "UPSTREAM_5XX" -> "UNAVAILABLE"
      [] code = "VALIDATION_ERROR" -> "UNKNOWN"
      [] OTHER -> code

\* mapUpstreamFailureToAdapterError: the first rule that applies decides.
AdapterCode(f, operation) ==
    LET code == Normalized(f.code)
        lookup == operation \in {"resolveProject", "createSession"}
        cancel == operation = "cancelOrInterrupt"
        rules == <<
            <<f.transport = "timeout", "TIMEOUT">>,
            <<code = "PROJECT_NOT_FOUND", "PROJECT_NOT_FOUND">>,
            <<cancel /\ f.status = 404 /\ code = "none", "UNSUPPORTED">>,
            <<(f.status = 404 \/ code = "SESSION_NOT_FOUND") /\ lookup, "PROJECT_NOT_FOUND">>,
            <<f.status = 404 \/ code = "SESSION_NOT_FOUND", "SESSION_NOT_FOUND">>,
            <<code = "SESSION_PROJECT_MISMATCH", "SESSION_PROJECT_MISMATCH">>,
            <<f.status = 409 \/ code = "TASK_RUNNING", "TASK_RUNNING">>,
            <<code = "UNSUPPORTED", "UNSUPPORTED">>,
            <<f.status >= 500, "UNAVAILABLE">>,
            <<TRUE, "UNKNOWN">> >>
        applies(rule) == rule[1]
    IN SelectSeq(rules, applies)[1][2]

\* mapAdapterErrorToDomainError
DomainCode(code) ==
    CASE code \in {"PROJECT_NOT_FOUND", "SESSION_NOT_FOUND"} -> "NOT_FOUND"
      [] code = "TASK_RUNNING" -> "CONFLICT_ACTIVE_TASK"
      [] code = "TIMEOUT" -> "UPSTREAM_TIMEOUT"
      [] code = "UNAVAILABLE" -> "UPSTREAM_5XX"
      [] OTHER -> "VALIDATION_ERROR"

\* What a use case is told of a failure.
ErrorOf(f, operation) == DomainCode(AdapterCode(f, operation))
=============================================================================
