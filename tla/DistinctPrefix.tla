--------------------------- MODULE DistinctPrefix ---------------------------
(***************************************************************************)
(* How the paginator tells a raw projection that starts with DISTINCT      *)
(* (projection.go: hasDistinctPrefix).  The loop peels white space and     *)
(* comments off the text until it meets something else.                    *)
(*                                                                         *)
(* A text is a sequence of tokens.  "distinct" stands for DISTINCT and     *)
(* DISTINCTROW in any case, "wide" for a Unicode space that MySQL does not *)
(* know, "word" and "digits" for what may continue a name, "modifier" for  *)
(* an option of SELECT like SQL_NO_CACHE, "other" for any other sign.      *)
(***************************************************************************)
EXTENDS Naturals, Sequences

CONSTANT Texts      \* the projections a caller may write

Blanks == {"blank", "cr", "newline"}
Spaces == Blanks \cup {"wide"}
Wordy  == {"distinct", "modifier", "word", "digits", "wide"}
Tokens == Spaces \cup Wordy \cup {"/*", "/*!", "*/", "--", "#", "(", "other"}

ASSUME TextsAssumption == Texts \subseteq Seq(Tokens)

VARIABLES
    text,       \* what the caller wrote
    sql,        \* what is left of it
    verdict

scanVars == <<text, sql, verdict>>

-----------------------------------------------------------------------------
(* projection.go                                                           *)

TrimLeft(s, set) ==
    LET kept == {i \in DOMAIN s : s[i] \notin set}
    IN  IF kept = {} THEN << >> ELSE SubSeq(s, CHOOSE i \in kept : \A j \in kept : i <= j, Len(s))

(* The first place of one of the tokens after the first, 0 for none.       *)
IndexOf(s, set) ==
    LET at == {i \in 2..Len(s) : s[i] \in set}
    IN  IF at = {} THEN 0 ELSE CHOOSE i \in at : \A j \in at : i <= j

After(s, i) == SubSeq(s, i + 1, Len(s))

(* Mutant: what follows the keyword is not looked at.                      *)
startsWithKeyword(s) == s # << >> /\ s[1] = "distinct"

hasDistinctKeyword(s) ==
    s # << >> /\ s[1] = "distinct" /\ (Len(s) = 1 \/ s[2] \in Spaces \cup {"("})

ScanInit == text \in Texts /\ sql = text /\ verdict = "scanning"

Decide(found) == verdict' = (IF found THEN "yes" ELSE "no") /\ UNCHANGED sql

(* Mutant: a digit in front of the keyword is not taken for a version.     *)
untrimmedBody(s, end) == TrimLeft(SubSeq(s, 2, end - 1), Spaces)

(* The inside of a version comment, without its version.                   *)
bodyOf(s, end) == TrimLeft(SubSeq(s, 2, end - 1), Spaces \cup {"digits"})

VersionComment(s) ==
    /\ s # << >> /\ s[1] = "/*!"
    /\ LET end == IndexOf(s, {"*/"})
       IN  IF end = 0 THEN Decide(FALSE)
           ELSE IF hasDistinctKeyword(bodyOf(s, end)) THEN Decide(TRUE)
           ELSE sql' = After(s, end) /\ UNCHANGED verdict

Comment(s) ==
    /\ s # << >> /\ s[1] = "/*"
    /\ LET end == IndexOf(s, {"*/"})
       IN  IF end = 0 THEN Decide(FALSE) ELSE sql' = After(s, end) /\ UNCHANGED verdict

LineComment(s) ==
    /\ s # << >> /\ s[1] \in {"--", "#"}
    /\ LET end == IndexOf(s, {"cr", "newline"})
       IN  IF end = 0 THEN Decide(FALSE) ELSE sql' = After(s, end) /\ UNCHANGED verdict

Keyword(s) ==
    /\ ~(s # << >> /\ s[1] \in {"/*", "/*!", "--", "#"})
    /\ Decide(hasDistinctKeyword(s))

(* One turn of the loop.                                                   *)
ScanNext ==
    /\ verdict = "scanning"
    /\ LET s == TrimLeft(sql, Spaces)
       IN  VersionComment(s) \/ Comment(s) \/ LineComment(s) \/ Keyword(s)
    /\ UNCHANGED text

ScanSpec == ScanInit /\ [][ScanNext]_scanVars

-----------------------------------------------------------------------------
(* MySQL (external): reads the text from left to right.  A version comment *)
(* is code to it, or is skipped by a server that is older.                 *)

Lexer(mode, inside, prev) == [mode |-> mode, inside |-> inside, prev |-> prev]

Code(s, token, skip) ==
    CASE token \in Blanks     -> Lexer("code", s.inside, token)
      [] token = "modifier"   -> Lexer("code", s.inside, token)
      [] token = "distinct"   -> Lexer("keyword", s.inside, token)
      [] token = "/*"         -> Lexer("block", s.inside, token)
      [] token = "/*!"        -> IF skip THEN Lexer("block", s.inside, token)
                                 ELSE Lexer("version", TRUE, token)
      [] token = "*/"         -> Lexer(IF s.inside THEN "code" ELSE "no", FALSE, token)
      [] token = "--"         -> Lexer("dashes", s.inside, token)
      [] token = "#"          -> Lexer("line", s.inside, token)
      [] OTHER                -> Lexer("no", s.inside, token)

Read(s, token, skip) ==
    CASE s.mode = "no"      -> s
      [] s.mode = "yes"     -> Lexer("yes", s.inside /\ token # "*/", token)
      [] s.mode = "block"   -> Lexer(IF token = "*/" THEN "code" ELSE "block", s.inside, token)
      [] s.mode = "line"    -> Lexer(IF token = "newline" THEN "code" ELSE "line", s.inside, token)
      [] s.mode = "dashes"  -> Lexer(IF token = "newline" THEN "code"
                                     ELSE IF token \in Blanks THEN "line" ELSE "no", s.inside, token)
      [] s.mode = "keyword" -> Lexer(IF token \in Wordy \/ (token = "*/" /\ ~s.inside)
                                     THEN "no" ELSE "yes", s.inside /\ token # "*/", token)
      [] s.mode = "version" -> IF token = "digits" THEN Lexer("code", TRUE, "blank")
                               ELSE Code(s, token, skip)
      [] s.mode = "code"    -> IF s.prev \in Wordy /\ token \in Wordy
                               THEN Lexer("no", s.inside, token)
                               ELSE Code(s, token, skip)

(* What it has read after i tokens, if the version comments in skipped are *)
(* meant for a newer server.                                               *)
Reading(t, skipped) ==
    LET after[i \in 0..Len(t)] == IF i = 0 THEN Lexer("code", FALSE, "blank")
                                  ELSE Read(after[i - 1], t[i], i \in skipped)
    IN  after

Selects(t, skipped) ==
    LET s == Reading(t, skipped)[Len(t)]
    IN  s.mode \in {"yes", "keyword"} /\ ~s.inside

VersionComments(t) == {i \in DOMAIN t : t[i] = "/*!"}

(* Some server takes the text for a SELECT DISTINCT.                       *)
IsDistinct(t) == \E skipped \in SUBSET VersionComments(t) : Selects(t, skipped)

-----------------------------------------------------------------------------
(* Properties.                                                             *)

Inside(t, i) == \E j \in 1..i : t[j] = "/*!" /\ "*/" \notin {t[k] : k \in j..i}

(* A line comment goes on for MySQL behind a carriage return without a     *)
(* newline, and ends there for the package.                                *)
ReturnInComment(t) ==
    \E i \in DOMAIN t :
        /\ t[i] = "cr" /\ i < Len(t) /\ t[i + 1] # "newline"
        /\ \E j \in 1..(i - 1) : t[j] \in {"--", "#"} /\ "newline" \notin {t[k] : k \in j..i}

(* No option of SELECT, the keyword ends where a blank, a parenthesis or   *)
(* the comment it stands in begins, there is no comment inside a version   *)
(* comment, and lines end in a newline.                                    *)
Plain(t) ==
    /\ \A i \in DOMAIN t : t[i] # "modifier"
    /\ \A i \in DOMAIN t : t[i] = "distinct" /\ i < Len(t) =>
        t[i + 1] \in Blanks \cup {"(", "*/"}
    /\ \A i \in DOMAIN t : t[i] \in {"/*", "/*!", "--", "#"} => ~Inside(t, i - 1)
    /\ ~ReturnInComment(t)

(* A Unicode space, a carriage return that ends a comment, two dashes      *)
(* without a blank or digits in a version comment: for the package they    *)
(* are more than for MySQL.                                                *)
Lenient(t) ==
    \/ \E i \in DOMAIN t : t[i] = "wide"
    \/ ReturnInComment(t)
    \/ \E i \in DOMAIN t : t[i] = "--" /\ (i = Len(t) \/ t[i + 1] \notin Blanks)
    \/ \E i \in DOMAIN t : Inside(t, i) /\ t[i] = "digits" /\ t[i - 1] # "/*!"

(* A plain DISTINCT is recognised behind any comments, in the version      *)
(* comment of MySQL too, so that it is never counted as a full projection; *)
(* and what is taken for a DISTINCT is one, so that no column like         *)
(* distinct_id is refused (hasDistinctPrefix, hasDistinctKeyword).         *)
DistinctRecognised ==
    /\ verdict = "no" /\ Plain(text) => ~IsDistinct(text)
    /\ verdict = "yes" => IsDistinct(text) \/ Lenient(text)
=============================================================================
