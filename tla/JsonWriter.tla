----------------------------- MODULE JsonWriter -----------------------------
(***************************************************************************)
(* The JSON writer all agent messages go through.  It writes into a buffer *)
(* of fixed size; the text is abstracted to its length, which is all that  *)
(* decides whether a message comes out.  A string is given by how many of  *)
(* its characters are copied, take an escape of two or one of six bytes.   *)
(***************************************************************************)
EXTENDS Integers, Sequences, SequencesExt

Chars(n) == [plain |-> n, two |-> 0, six |-> 0]
NoChars == Chars(0)
Controls(n) == [plain |-> 0, two |-> 0, six |-> n]

emit_quoted(s) == 2 + s.plain + 2 * s.two + 6 * s.six

\* What ps_json_object_begin and ps_json_object_end put around the parts, with
\* the commas between them.
Object(parts) ==
  2 + FoldLeft(LAMBDA a, b : a + b, 0, parts) + (IF parts = << >> THEN 0 ELSE Len(parts) - 1)

ps_json_key_object(key, parts) == emit_quoted(Chars(key)) + 1 + Object(parts)
ps_json_array(key, parts) == ps_json_key_object(key, parts)
ps_json_key_string(key, s) == emit_quoted(Chars(key)) + 1 + emit_quoted(s)
\* A number, boolean or fraction: its text has n characters.
ps_json_key_int(key, n) == emit_quoted(Chars(key)) + 1 + n
ps_json_array_string(s) == emit_quoted(s)

\* Once a piece does not fit the error sticks, so only the whole length counts;
\* one byte is for the terminator.
ps_json_finish(cap, len) == IF len >= cap THEN -1 ELSE len

Digits(n) == IF n < 10 THEN 1 ELSE IF n < 100 THEN 2 ELSE IF n < 1000 THEN 3
             ELSE IF n < 10000 THEN 4 ELSE 5
=============================================================================
