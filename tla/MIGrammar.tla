----------------------------- MODULE MIGrammar -----------------------------
(***************************************************************************)
(* What one line of GDB/MI output says: the recursive descent of           *)
(* src/server/gdb/mi_parser.py, from _parse_line down.                     *)
(*                                                                         *)
(* A line is a sequence of tokens: a digit, a letter, one whole c-string   *)
(* (a token of Strings, its escapes already resolved) or one character of  *)
(* the grammar.  A parsed value is a pair of its kind and its content.     *)
(***************************************************************************)
EXTENDS Naturals, Sequences, SequencesExt

CONSTANT Strings   \* the c-strings that GDB writes

Digits == {"7"}
Letters == {"a", "b", "c"}
Words == Digits \cup Letters
Prompt == "(gdb)"
OddDigit == "\\u00b2"   \* a character that isdigit() accepts and int() does not

AsyncTypes == [x \in {"*", "+", "="} |->
                 CASE x = "*" -> "exec" [] x = "+" -> "status" [] OTHER -> "notify"]
StreamTypes == [x \in {"~", "@", "&"} |->
                  CASE x = "~" -> "console" [] x = "@" -> "target" [] OTHER -> "log"]

(* Recursive descent.  A parse function takes the line and a position and  *)
(* returns a value and the position after it.                              *)

At(s, p) == IF p \in DOMAIN s THEN s[p] ELSE "end"

\* The first position from p on whose token is not in S.
Skip(s, p, S) ==
    CHOOSE q \in p..(Len(s) + 1) :
        /\ At(s, q) \notin S
        /\ \A i \in p..(q - 1) : At(s, i) \in S

ParseIdentifier(s, p) ==
    LET q == Skip(s, p, Words) IN [v |-> SubSeq(s, p, q - 1), pos |-> q]

Put(results, key, v) == {r \in results : r[1] # key} \cup {<<key, v>>}

RECURSIVE ParseValue(_, _), ParseTuple(_, _, _), ParseList(_, _, _, _)

\* A value after "=", or the empty string if there is none.
ParseAssigned(s, p) ==
    IF At(s, p) = "=" THEN ParseValue(s, p + 1) ELSE [v |-> <<"bare", <<>> >>, pos |-> p]

ParseValue(s, p) ==
    CASE At(s, p) \in Strings -> [v |-> <<"string", At(s, p)>>, pos |-> p + 1]
      [] At(s, p) = "{" ->
           IF At(s, p + 1) = "}" THEN [v |-> <<"tuple", {}>>, pos |-> p + 2]
           ELSE ParseTuple(s, p + 1, {})
      [] At(s, p) = "[" ->
           IF At(s, p + 1) = "]" THEN [v |-> <<"list", <<>> >>, pos |-> p + 2]
           ELSE ParseList(s, p + 1, <<>>, At(s, Skip(s, p + 1, Words)) = "=")
      [] OTHER ->
           LET q == CHOOSE q \in p..(Len(s) + 1) :
                        /\ At(s, q) \in {",", "}", "]", "end"}
                        /\ \A i \in p..(q - 1) : At(s, i) \notin {",", "}", "]", "end"}
           IN  [v |-> <<"bare", SubSeq(s, p, q - 1)>>, pos |-> q]

\* The results of a tuple from p on; a line that ends early gives what there is.
ParseTuple(s, p, results) ==
    IF p > Len(s) THEN [v |-> <<"tuple", results>>, pos |-> p]
    ELSE LET key == ParseIdentifier(s, p)
             val == ParseAssigned(s, key.pos)
             all == Put(results, key.v, val.v)
         IN  CASE At(s, val.pos) = "," -> ParseTuple(s, val.pos + 1, all)
               [] At(s, val.pos) = "}" -> [v |-> <<"tuple", all>>, pos |-> val.pos + 1]
               [] OTHER -> [v |-> <<"tuple", all>>, pos |-> val.pos]

\* The items of a list from p on; each result of a result list becomes a
\* dictionary with one key.
ParseList(s, p, items, isResults) ==
    IF p > Len(s) THEN [v |-> <<"list", items>>, pos |-> p]
    ELSE LET key == ParseIdentifier(s, p)
             val == IF ~isResults THEN ParseValue(s, p)
                    ELSE IF At(s, key.pos) = "=" THEN ParseValue(s, key.pos + 1)
                    ELSE ParseValue(s, key.pos)
             all == Append(items, IF isResults THEN <<"tuple", {<<key.v, val.v>>}>> ELSE val.v)
         IN  CASE At(s, val.pos) = "," -> ParseList(s, val.pos + 1, all, isResults)
               [] At(s, val.pos) = "]" -> [v |-> <<"list", all>>, pos |-> val.pos + 1]
               [] OTHER -> [v |-> <<"list", all>>, pos |-> val.pos]

RECURSIVE ParseResults(_, _, _)
\* _parse_results_tail: the results that follow the class of a record.
ParseResults(s, p, results) ==
    LET key == ParseIdentifier(s, p + 1)
        val == ParseAssigned(s, key.pos)
    IN  IF At(s, p) # "," \/ key.v = <<>> THEN results
        ELSE ParseResults(s, val.pos, Put(results, key.v, val.v))

Record(type, token, class, results) ==
    [type |-> type, token |-> token, class |-> class, content |-> results]

\* The records of a line: one, or none for a line that is not a record.
LineRecords(s) ==
    LET p == Skip(s, 1, Digits)
        token == SubSeq(s, 1, p - 1)
        prefix == At(s, p)
        class == ParseIdentifier(s, p + 1)
        text == Skip(s, p + 1, {" "})
    IN  CASE At(s, 1) = Prompt -> <<>>
          [] At(s, 1) # Prompt /\ prefix = "^" ->
               <<Record("result", token, class.v, ParseResults(s, class.pos, {}))>>
          [] At(s, 1) # Prompt /\ prefix \in DOMAIN AsyncTypes ->
               <<Record(AsyncTypes[prefix], token, class.v, ParseResults(s, class.pos, {}))>>
          [] At(s, 1) # Prompt /\ prefix \in DOMAIN StreamTypes ->
               <<Record(StreamTypes[prefix], <<>>, <<>>,
                        IF At(s, text) \in Strings THEN <<"string", s[text]>>
                        ELSE <<"bare", SubSeq(s, text, Len(s))>>)>>
          [] OTHER -> <<>>

\* Whether _parse_line raises: the token is converted with int(), which does not
\* know an odd digit. (It also converts octal escapes, of which a C string here has none.)
OddToken(s) == At(s, 1) # Prompt /\ At(s, Skip(s, 1, Digits)) = OddDigit

=============================================================================
