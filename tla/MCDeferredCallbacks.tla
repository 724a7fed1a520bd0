------------------------ MODULE MCDeferredCallbacks ------------------------
(* The five modules that run code from timers and tasklets.                *)
EXTENDS DeferredCallbacks

AllExamples == {Timer004, Hrt005, Tasklet008, TimerTasklet010, FileTasklet011}
=============================================================================
