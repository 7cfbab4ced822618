--------------------------- MODULE MCActiveObject ---------------------------
(* An instance of ActiveObject for TLC: three threads, four jobs, and room *)
(* for two jobs.                                                           *)
EXTENDS ActiveObject, TLC

CONSTANTS s1, s2, s3, j1, j2, j3, j4

MCSenders == {s1, s2, s3}
MCJobs == {j1, j2, j3, j4}
=============================================================================
