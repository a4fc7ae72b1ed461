----------------------------- MODULE MCMcpProxy ------------------------------
(* Small instances of McpProxy for TLC.                                     *)
EXTENDS McpProxy

CONSTANTS git, hr, query, export

MCResources == {git, hr} \X {query, export}

\* What the HR server answers to a query may hold mail addresses, what it
\* exports may not; nothing sensitive comes from or goes to git.
MCRules ==
    {[covers |-> {<<hr, query>>}, label |-> "EMAIL", action |-> "log"],
     [covers |-> {git} \X {query, export}, label |-> "*", action |-> "block"],
     [covers |-> {git} \X {query, export}, label |-> "*", action |-> "redact"]}

MCContents == {{}, {"EMAIL"}}
=============================================================================
