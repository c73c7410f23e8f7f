------------------------------ MODULE JsonGrammar ------------------------------
(***************************************************************************)
(* The JSON grammar, with comments between any two tokens, as an automaton *)
(* that takes one token at a time, to hold the recursive descent of        *)
(* json_reader.cpp against.                                                *)
(***************************************************************************)
EXTENDS JsonReader

CONSTANTS
  Lexemes,     \* from a kind of token to its texts; the kinds are those of Fits and "bad"
  MaxTokens, MaxDepth

VARIABLES
  tokens,     \* the texts so far
  open,       \* what is open: "{" and "["
  expects,    \* what may come next, "done" or "dead"
  misread     \* where the first token stands that fits and that Reader refuses, or Nowhere

grammarVars == <<tokens, open, expects, misread>>

Nowhere == -1
GrammarInit == tokens = <<>> /\ open = <<>> /\ expects = "value" /\ misread = Nowhere

AfterValue(stack) == IF stack = <<>> THEN "done" ELSE "separator"
Close(k) == IF Last(open) = "{" THEN k = "}" ELSE k = "]"

\* The next state of the automaton; a kind that may not come leads to "dead".
Opens(k) == k \in {"{", "["} /\ expects \in {"value", "item or ]"}
Closes(k) == open # <<>> /\ Close(k) /\ expects \in {"separator", "item or ]", "name or }"}
Successor(k) ==
  CASE k = "comment" -> [open |-> open, expects |-> expects]
    [] Opens(k) -> [open |-> Append(open, k), expects |-> IF k = "{" THEN "name or }" ELSE "item or ]"]
    [] Closes(k) -> [open |-> Front(open), expects |-> AfterValue(Front(open))]
    [] k \in {"scalar", "string"} /\ expects \in {"value", "item or ]"} -> [open |-> open, expects |-> AfterValue(open)]
    [] k = "string" /\ expects \in {"name", "name or }"} -> [open |-> open, expects |-> "colon"]
    [] k = ":" /\ expects = "colon" -> [open |-> open, expects |-> "value"]
    [] k = "," /\ expects = "separator" -> [open |-> open, expects |-> IF Last(open) = "{" THEN "name" ELSE "value"]
    [] OTHER -> [open |-> open, expects |-> "dead"]

Document == FlattenSeq([i \in DOMAIN tokens |-> tokens[i] \o <<" ">>])
LastStart == Len(Document) - Len(Last(tokens)) - 1
AfterComment == tokens # <<>> /\ Last(tokens) \in Lexemes["comment"]

\* Reader takes no comment before a colon, and no "]" behind a comment in an empty array.
Refused(k) == (k = "comment" /\ expects = "colon") \/ (k = "]" /\ expects = "item or ]" /\ AfterComment)

\* After a comment that follows a member, the code takes any token for the comma: not tried.
Unchecked(k) == AfterComment /\ expects = "separator" /\ Last(open) = "{" /\ k \notin {",", "}", "comment"}

Token(k) ==
  /\ Len(tokens) < MaxTokens /\ expects \notin {"done", "dead"} /\ ~Unchecked(k)
  /\ k \in {"{", "["} => Len(open) < MaxDepth
  /\ \E t \in Lexemes[k] : tokens' = Append(tokens, t)
  /\ open' = Successor(k).open /\ expects' = Successor(k).expects
  /\ misread' = IF misread = Nowhere /\ Refused(k) THEN Len(Document) ELSE misread
GrammarNext == \E k \in DOMAIN Lexemes : Token(k)

\* Reader accepts a document as soon as, and only when, the grammar has a whole value without a
\* comment before a colon or in an empty array: those it refuses, whatever follows.  It reports an
\* error exactly when it refuses, and the first one is at the first token that no longer fits or
\* that is refused so, or at the end of a document that stops too early.  Strict mode also refuses
\* a scalar.
ReaderFollowsGrammar ==
  \A features \in {all, strictMode} : \E r \in {parse(Document, features, TRUE)} :
    LET whole == /\ expects = "done" /\ misread = Nowhere
                 /\ features = all \/ r.root.type \in {"null", "array", "object"}
        stops == CASE misread # Nowhere -> misread
                   [] misread = Nowhere /\ expects = "dead" -> LastStart
                   [] OTHER -> Len(Document)
    IN  (features = all \/ \A i \in DOMAIN tokens : tokens[i] \notin Lexemes["comment"]) =>
          /\ r.ok <=> whole
          /\ r.ok <=> r.errors = <<>>
          /\ \A i \in DOMAIN r.errors : r.errors[i].token.start \in 0 .. Len(Document)
          /\ expects # "done" \/ misread # Nowhere => r.errors[1].token.start = stops
================================================================================
