----------------------------- MODULE Configure ------------------------------
(***************************************************************************)
(* Configure.cpp: load() and GetStrParam(), which read an ini file line by *)
(* line with the same loop.  A line is a sequence of tokens: "[" "]" "="   *)
(* ";" "#" the two quotes, the backslash, a space, and words; it fits in   *)
(* line[] with what is read on, since a longer one ends the reading as a   *)
(* last line without a newline does.                                       *)
(***************************************************************************)
EXTENDS Naturals, Sequences, FiniteSets, SequencesExt

CONSTANTS
  Items,      \* what a file may say: [means, lines], the lines of one statement
  MaxItems,   \* bound: statements of a file
  Wanted      \* [key, section] asked of GetStrParam

ASSUME ConfigureAssumption == MaxItems \in Nat

VARIABLES
  file,       \* the statements of the file
  whole,      \* its last line ends in a newline
  stray,      \* line[-1], the byte of the stack an empty line makes the code read, is a backslash
  skipped,    \* last = -1: the first byte of the next line goes to line[-1]
  strayed,    \* history: that has happened
  lines,      \* the physical lines not read yet
  joined,     \* what lines ending in a backslash have left in line[]
  section,    \* the buffer section
  loaded,     \* the pairs given to parse_value(), by load()
  value,      \* <<lstrValue>> of GetStrParam(); None until lbFound
  ending      \* "reading", "true" or "false": how load() ends

cfgVars == <<file, whole, stray, skipped, strayed, lines, joined, section, loaded, value, ending>>

None == <<>>
Space == " "
Spaces(t) == t = Space

CfgInit ==
  /\ file \in BoundedSeq(Items, MaxItems)
  /\ whole \in BOOLEAN /\ stray \in BOOLEAN
  /\ skipped = FALSE /\ strayed = FALSE
  /\ lines = FlattenSeq([i \in DOMAIN file |-> file[i].lines])
  /\ joined = <<>> /\ section = <<>>
  /\ loaded = <<>> /\ value = None /\ ending = "reading"

\* The part of s up to the first token of a set, all of s if there is none.
UpTo(s, tokens) ==
  LET n == SelectInSeq(s, LAMBDA t : t \in tokens) IN IF n = 0 THEN s ELSE SubSeq(s, 1, n - 1)

\* Spaces at the end only, as load() takes them off before it looks for a backslash.
StripEnd(s) ==
  LET kept == {i \in DOMAIN s : s[i] # Space}
  IN  SubSeq(s, 1, IF kept = {} THEN 0 ELSE CHOOSE i \in kept : \A j \in kept : j <= i)

strstrip(s) ==
  LET kept == {i \in DOMAIN s : s[i] # Space}
  IN  IF kept = {} THEN <<>>
      ELSE SubSeq(s, CHOOSE i \in kept : \A j \in kept : i <= j, CHOOSE i \in kept : \A j \in kept : j <= i)

\* What follows the first "=": the quoted forms, then the plain one, then no value at
\* all; two quotes are no value, whichever form they were read by.
ValueOf(rest) ==
  LET quoted == Len(rest) >= 2 /\ rest[1] \in {"\"", "'"} /\ rest[2] # rest[1]
      v == strstrip(IF quoted THEN UpTo(Tail(rest), {rest[1]}) ELSE UpTo(rest, {";", "#"}))
  IN  IF v \in {<<"\"", "\"">>, <<"'", "'">>} THEN <<>> ELSE v

iniparser_line(text, sec) ==
  LET line == strstrip(text)
      eq == SelectInSeq(line, LAMBDA t : t = "=")
      name == UpTo(Tail(line), {"]"})
  IN  IF line = <<>> THEN [status |-> "LINE_EMPTY"]
      ELSE IF line[1] = "#" THEN [status |-> "LINE_COMMENT"]
      ELSE IF line[1] = "[" /\ Last(line) = "]"
        THEN [status |-> "LINE_SECTION", section |-> IF name = <<>> THEN sec ELSE strstrip(name)]
      ELSE IF eq > 1
        THEN [status |-> "LINE_VALUE", key |-> strstrip(SubSeq(line, 1, eq - 1)),
              value |-> ValueOf(strstrip(SubSeq(line, eq + 1, Len(line))))]
      ELSE [status |-> "LINE_ERROR"]

\* fgets() and one turn of the loop, of load() and of GetStrParam() at once: the
\* second ends with lbFound and keeps what it found while the first goes on.  Each
\* has a line[] of its own; line[-1] is taken to be alike for both.  A last line
\* without a newline ends the reading: fgets() gives what there is of it, or NULL.
ReadLine ==
  LET read == Head(lines)
      before == IF skipped THEN read # <<>> /\ read[1] = "\\" ELSE stray
      line == StripEnd(joined \o IF skipped THEN SubSeq(read, 2, Len(read)) ELSE read)
      parsed == iniparser_line(line, section)
      matches == parsed.key = Wanted.key /\ section = Wanted.section
  IN  /\ ending = "reading" /\ lines # <<>>
      /\ lines' = Tail(lines)
      /\ UNCHANGED <<file, whole>>
      /\ IF Len(lines) = 1 /\ ~whole
           THEN /\ ending' = IF read = <<>> THEN "true" ELSE "false"
                /\ UNCHANGED <<stray, skipped, strayed, joined, section, loaded, value>>
         ELSE /\ stray' = before
              /\ skipped' = (line = <<>> /\ before)
              /\ strayed' = (strayed \/ skipped')
              /\ UNCHANGED ending
              /\ IF line # <<>> /\ Last(line) = "\\"
                   THEN joined' = Front(line) /\ UNCHANGED <<section, loaded, value>>
                 ELSE IF skipped'
                   THEN joined' = <<>> /\ UNCHANGED <<section, loaded, value>>
                 ELSE /\ joined' = <<>>
                      /\ section' = IF parsed.status = "LINE_SECTION" THEN parsed.section ELSE section
                      /\ loaded' = IF parsed.status = "LINE_VALUE"
                                   THEN Append(loaded, <<parsed.key, parsed.value>>) ELSE loaded
                      /\ value' = IF parsed.status = "LINE_VALUE" /\ value = None /\ matches
                                  THEN <<parsed.value>> ELSE value

EndOfFile == ending = "reading" /\ lines = <<>> /\ ending' = "true"
             /\ UNCHANGED <<file, whole, stray, skipped, strayed, lines, joined, section, loaded, value>>

CfgNext == ReadLine \/ EndOfFile

CfgSpec == CfgInit /\ [][CfgNext]_cfgVars

-----------------------------------------------------------------------------

(* What load() hands on, and what GetStrParam() answers, is what the file says:  *)
(* every entry in order, the first entry of the key in the section asked for, no *)
(* entry of another section, and nothing of a last line without a newline.  So   *)
(* it is unless the byte before line[0] was a backslash as an empty line was read. *)
Said == 1 .. (IF whole THEN Len(file) ELSE Len(file) - 1)

Entries == {i \in Said : file[i].means.is = "entry"}

SectionAt(i) ==
  LET opened == {j \in 1 .. i : file[j].means.is = "section"}
  IN  IF opened = {} THEN <<>> ELSE file[CHOOSE j \in opened : \A k \in opened : k <= j].means.name

Asked == {i \in Entries : file[i].means.key = Wanted.key /\ SectionAt(i) = Wanted.section}

ConfigRight ==
  ending # "reading" /\ ~strayed =>
    /\ Len(loaded) = Cardinality(Entries)
    /\ \A i \in Entries :
         loaded[Cardinality({j \in Entries : j <= i})] = <<file[i].means.key, file[i].means.value>>
    /\ value = IF Asked = {} THEN None ELSE <<file[CHOOSE i \in Asked : \A j \in Asked : i <= j].means.value>>
    /\ (ending = "false") = (~whole /\ file # <<>> /\ Last(Last(file).lines) # <<>>)
=============================================================================
