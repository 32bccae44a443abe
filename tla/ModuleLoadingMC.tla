-------------------------- MODULE ModuleLoadingMC --------------------------
(* What is asked of the start-up.                                          *)
EXTENDS ModuleLoading

\* "The actual kitchen task (process_order) is defined in src/tasks/kitchen.py
\* and imported at application start" (core/celery_app.py): no import fails.
ApplicationStarts == ~failed

=============================================================================
