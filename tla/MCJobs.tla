------------------------------- MODULE MCJobs -------------------------------
(* A small instance of Jobs for TLC: a folder of one file, and a file.      *)
EXTENDS Jobs, TLC

CONSTANTS folder, doc, a, b
MCContents == (folder :> {a}) @@ (doc :> {b})
=============================================================================
