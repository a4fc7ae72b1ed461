----------------------------- MODULE MCFileWatch -----------------------------
(* Small instances of FileWatch for TLC.                                    *)
EXTENDS FileWatch

CONSTANTS notes, env

MCResources == {notes, env} \X (0..2)

\* .env and .env.* are blocked by default and by both policies; the second
\* one lets notes.txt and its backups be.
Env == [covers |-> {env} \X (0..2), label |-> "*", action |-> "block"]
MCDefaults == {Env}
MCPolicies == <<{Env}, {Env, [covers |-> {notes} \X (0..2), label |-> "SSN", action |-> "log"]}>>

MCContents == {{}, {"SSN"}}
=============================================================================
