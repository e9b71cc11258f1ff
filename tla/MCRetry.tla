------------------------------- MODULE MCRetry -------------------------------
(***************************************************************************)
(* Two callers: with an open circuit retried, not retried, and no attempt. *)
(***************************************************************************)
EXTENDS Retry

RetryAll == [max |-> 2, listed |-> Errors]
RetryFailures == [max |-> 2, listed |-> {"failure"}]
NoAttempt == [max |-> 0, listed |-> {"failure"}]
MCDecorators == {RetryAll, RetryFailures, NoAttempt}
=============================================================================
