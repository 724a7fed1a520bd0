----------------------------- MODULE MCWorkItem -----------------------------
(* The three modules that use the system workqueue.                        *)
EXTENDS WorkItem

AllWorkExamples == {WaitQueue003, WorkQueue009, WorkQueue013}
Only009 == {WorkQueue009}
=============================================================================
