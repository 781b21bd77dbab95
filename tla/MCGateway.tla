----------------------------- MODULE MCGateway ------------------------------
(* The gateway process in the environments of MCGateway.cfg.                *)
EXTENDS Gateway, TLC

Num(n) == [text |-> ToString(n), int |-> n]

\* One queue slot and one worker each
Small == [SERVER_MAX_CONNECTIONS |-> Num(1),
          SERVER_QUEUE_SIZE |-> Num(1), SERVER_WORKER_COUNT |-> Num(1),
          SERVER_CRITICAL_QUEUE_SIZE |-> Num(1),
          SERVER_CRITICAL_WORKER_COUNT |-> Num(1)]

\* The sizes an operator may get wrong: no workers, no buffer, a negative
\* size, and no critical workers, which getPositiveInt turns into the default
MCEnvironments ==
  {Small,
   [Small EXCEPT !.SERVER_WORKER_COUNT = Num(0)],
   [Small EXCEPT !.SERVER_QUEUE_SIZE = Num(0)],
   [Small EXCEPT !.SERVER_QUEUE_SIZE = Num(-1)],
   [Small EXCEPT !.SERVER_CRITICAL_WORKER_COUNT = Num(0)]}
=============================================================================
