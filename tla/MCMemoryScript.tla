--------------------------- MODULE MCMemoryScript ---------------------------
(* Two scripts of up to two lines: the second one may come while the thread *)
(* of the first sleeps, parses, runs or reports.  Before them a text is     *)
(* parsed: a script of up to three pieces or a command of up to six         *)
(* characters.                                                              *)
EXTENDS MemoryScript, ScriptParser

MCInit == Init /\ ParserInit
MCNext == \/ parsed = NoText /\ Next /\ UNCHANGED parsed
          \/ Parsed /\ UNCHANGED vars
MCSpec == MCInit /\ [][MCNext]_<<vars, parsed>>
          /\ \A s \in Script : WF_vars(ThreadStep(s) \/ End(s))
=============================================================================
