----------------------------- MODULE CliVerdict -----------------------------
(***************************************************************************)
(* experiments/lib/cedar_cli.py: from the text of one `cedar authorize` to *)
(* an outcome.  The CLI prints its decision and its messages; a message    *)
(* repeats names from the policy, which may contain the word "allow" or    *)
(* the text of a marker; the CLI may be killed between two prints.         *)
(*                                                                         *)
(* A piece of text is the set of the words in it that the parser looks     *)
(* for.                                                                    *)
(***************************************************************************)
EXTENDS FiniteSets

\* What cedar makes of a call, and what the parser says of it.
CedarOutcome == {"Allow", "Deny", "ParseError", "EvalError"}

Words == {"allow", "parse marker", "eval marker"}

VARIABLES
    cliPc,    \* the CLI is "running", "done" or "killed"; then "parsed"
    said,     \* what cedar makes of the call (fixed)
    names,    \* the words in names that its messages repeat (fixed)
    toPrint,  \* the pieces it has not printed yet
    combined, \* combined_lower: the words printed so far
    died,     \* observation: it was killed
    verdict   \* the outcome, "none" before

cliVars == <<cliPc, said, names, toPrint, combined, died, verdict>>

\* "ALLOW" or "DENY" on standard output; messages name the policy.  A single
\* policy that raises allows nothing.
Pieces(outcome, words) ==
    CASE outcome = "Allow"      -> {{"allow"}}
      [] outcome = "Deny"       -> {{}}
      [] outcome = "ParseError" -> {{"parse marker"} \cup words}
      [] outcome = "EvalError"  -> {{}, {"eval marker"} \cup words}

CliInit ==
    /\ cliPc = "running" /\ combined = {} /\ died = FALSE /\ verdict = "none"
    /\ said \in CedarOutcome /\ names \in SUBSET Words
    /\ toPrint = Pieces(said, names)

PrintPiece ==
    /\ cliPc = "running"
    /\ \E piece \in toPrint :
        /\ combined' = combined \cup piece
        /\ toPrint' = toPrint \ {piece}
        /\ cliPc' = IF toPrint' = {} THEN "done" ELSE "running"
    /\ UNCHANGED <<said, names, died, verdict>>

KillCli ==
    /\ cliPc = "running" /\ cliPc' = "killed" /\ died' = TRUE
    /\ UNCHANGED <<said, names, toPrint, combined, verdict>>

\* Variant: the decision counts before the messages.
ParseAllowFirst(text) ==
    CASE "allow" \in text        -> "Allow"
      [] "parse marker" \in text -> "ParseError"
      [] "eval marker" \in text  -> "EvalError"
      [] OTHER                   -> "Deny"

\* parse_cedar_cli_result: a marker wherever it was printed, then "allow"
\* wherever it was; the exit code does not matter.
ParseCedarCliResult(text) ==
    IF "parse marker" \in text THEN "ParseError"
    ELSE IF "eval marker" \in text THEN "EvalError"
    ELSE IF "allow" \in text THEN "Allow" ELSE "Deny"

ParseOutput ==
    /\ cliPc \in {"done", "killed"} /\ cliPc' = "parsed"
    /\ verdict' = ParseCedarCliResult(combined)
    /\ UNCHANGED <<said, names, toPrint, combined, died>>

CliNext == PrintPiece \/ KillCli \/ ParseOutput

CliSpec == CliInit /\ [][CliNext]_cliVars

-----------------------------------------------------------------------------
\* Properties

CliTypeOK ==
    /\ cliPc \in {"running", "done", "killed", "parsed"}
    /\ said \in CedarOutcome /\ verdict \in CedarOutcome \cup {"none"}
    /\ names \subseteq Words /\ combined \subseteq Words
    /\ toPrint \subseteq SUBSET Words /\ died \in BOOLEAN

\* An Allow is cedar's own, whatever the policy is called and whenever the CLI
\* was killed; any other outcome where cedar allows means that it was killed,
\* which then passes for a Deny.  A CLI that came to its end is taken for what
\* it said, one kind of error for the other only where a name has the marker.
VerdictIsCedars ==
    verdict # "none" =>
        /\ verdict = "Allow" => said = "Allow"
        /\ said = "Allow" /\ verdict # "Allow" => died /\ verdict = "Deny"
        /\ ~died => \/ verdict = said
                    \/ said = "EvalError" /\ verdict = "ParseError" /\ "parse marker" \in names
=============================================================================
