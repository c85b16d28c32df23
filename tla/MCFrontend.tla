------------------------------ MODULE MCFrontend ------------------------------
(***************************************************************************)
(* The frontend, one of whose parts runs in each behaviour: the lexer on   *)
(* short texts, the parser of one statement, and the parser of modules and *)
(* what they declare.  The others stay as they start.                      *)
(***************************************************************************)
EXTENDS Statements, ModulePrograms

VARIABLES
    part,
    display, reader, lexed, pool, ids, tokens, ignore_line, prev_pos, errors, done,
    src, stack, order, ctx, phase, work

lexerVars == <<display, reader, lexed, pool, ids, tokens, ignore_line, prev_pos, errors, done>>
statementVars == <<kind, st, gram, brackets, verdict>>
moduleVars == <<src, stack, order, ctx, phase, work>>

(* All short texts over a few characters for each family of tokens. *)
Over(S, n) == UNION {[1 .. k -> S] : k \in 1 .. n}
MCTexts ==
    Over({"0", "1", "7", "8", "a", "b", "x", "z", "."}, 4)
    \cup {<<"1", ".">> \o t : t \in Over({"0", "8", "a", ".", "nl"}, 4)}
    \cup {<<"quote">> \o t : t \in Over({"quote", "bslash", "n", "z", "nl"}, 5)}
    \cup {<<"tick", "tick", "tick">> \o t : t \in Over({"tick", "tag", "nl", "z"}, 5)}
    \cup Over({"z", "_", "0", "sp", "nl"}, 5)
    \cup {<<"quote", "bslash", "0">> \o t : t \in Over({"quote", "z", "x", "sp"}, 4)}
    \cup Over({"nl", "#", "z", "tick", "@", "bad"}, 5)
    \cup Over({"tab", "cr", "nl", "z", "semi", "!", "="}, 4)
    \cup Over({"tab", "nl", "z", "$"}, 5)
MCReserved == {<<"z", "0">>, <<"z", "z", "z">>, <<"#", "z">>, <<"@", "z">>}

Lex == INSTANCE Lexer WITH Texts <- MCTexts, Reserved <- MCReserved, Width <- 64,
                           TabSpaces <- 4, WayPoint <- 3
ASSUME Lex!FieldsFit

ASSUME LimitsAssumption

Mod == INSTANCE ParseModules WITH Root <- "root", Arity <- MCArity, Programs <- MCPrograms

LexerRests ==
    /\ display = <<>> /\ reader = <<>> /\ lexed = <<>> /\ pool = <<>> /\ ids = {} /\ tokens = <<>>
    /\ ignore_line = FALSE /\ prev_pos = <<>> /\ errors = 0 /\ done = FALSE
StatementsRest ==
    kind = "none" /\ st = <<>> /\ gram = {} /\ brackets = <<>> /\ verdict = "none"
ModulesRest ==
    src = <<>> /\ stack = <<>> /\ order = <<>> /\ ctx = <<>> /\ phase = "none" /\ work = <<>>

InitParts ==
    \/ part = "lexer" /\ Lex!Init /\ StatementsRest /\ ModulesRest
    \/ part = "statements" /\ Init /\ LexerRests /\ ModulesRest
    \/ part = "modules" /\ Mod!Init /\ LexerRests /\ StatementsRest

NextParts ==
    \/ part = "lexer" /\ Lex!Next /\ UNCHANGED <<part, statementVars, moduleVars>>
    \/ part = "statements" /\ Next /\ UNCHANGED <<part, lexerVars, moduleVars>>
    \/ part = "modules" /\ Mod!Next /\ UNCHANGED <<part, lexerVars, statementVars>>

SpecParts == InitParts /\ [][NextParts]_<<part, lexerVars, statementVars, moduleVars>>
             /\ Mod!Progress

(* Tokens tile the text, each at its true line and column, from which any  *)
(* other is found again; literals are classified as docs/Grammar.md does;  *)
(* names share an id exactly when they are equal; and the parser gets one  *)
(* end-of-file token, at the end (Lexer).                                  *)
TokensExact ==
    part = "lexer" => /\ Lex!TokensTile
                      /\ Lex!LiteralsExact
                      /\ Lex!InternExact
                      /\ Lex!StreamEnds
                      /\ Lex!PositionsExact

(* A name means one declaration, and locals are used at home (ParseModules). *)
NamesResolve == part = "modules" => Mod!NamesResolve

(* An accepted program is consistently typed (ParseModules). *)
TypesAgree == part = "modules" => Mod!TypesAgree

(* A program is refused as untyped only if it is (ParseModules). *)
TypingComplete == part = "modules" => Mod!TypingComplete

(* Parsing and typing end, with cyclic imports too (ParseModules). *)
Terminates == Mod!Terminates
=============================================================================
