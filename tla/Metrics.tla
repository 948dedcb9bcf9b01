------------------------------- MODULE Metrics -------------------------------
(***************************************************************************)
(* What the metrics middleware (src/relayer/middleware/                    *)
(* metrics.middleware.ts) counts of one run of the pipeline, when it is    *)
(* the first middleware: the labels of vaas_finished_total.  The labels an *)
(* application adds, and the histograms, are left out: an error in them is *)
(* caught and the default labels are used.                                 *)
(***************************************************************************)
EXTENDS Naturals

Label == [status : {"succeeded", "failed"}, terminal : {"", "true", "false"}]

Succeeded == [status |-> "succeeded", terminal |-> ""]
FailedForGood == [status |-> "failed", terminal |-> "true"]

\* Mutant: attempts are compared as if they were counted from zero.
hasReachedMaxAttemptsAfter(attempts, maxAttempts) == attempts > maxAttempts

\* job.attempts is BullMQ's attemptsMade, which counts the run that is on.
hasReachedMaxAttempts(attempts, maxAttempts) == attempts >= maxAttempts

\* next() rejected; the error is rethrown after it was counted.
FailedWith(attempts, maxAttempts) ==
  [status |-> "failed",
   terminal |-> IF hasReachedMaxAttempts(attempts, maxAttempts) THEN "true" ELSE "false"]
=============================================================================
