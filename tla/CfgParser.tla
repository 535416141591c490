----------------------------- MODULE CfgParser -----------------------------
(***************************************************************************)
(* libcfgparser: the text of a configuration file to keywords.             *)
(*                                                                         *)
(* A text is a sequence of tokens; white space is left out, and so are the *)
(* characters of words but for what the grammar tells apart: how much of a *)
(* word a command word takes, and whether a word can stand unquoted.       *)
(***************************************************************************)
EXTENDS Integers, Sequences, SequencesExt

CONSTANTS
    Texts,        \* words and the contents of quoted strings
    Quoteless,    \* those of letters, digits, "_", "-" and "." only
    Cut           \* Cut[t]: t cut behind its longest command word (small
                  \* letters, "-", "_", "."); <<>> if it begins with none

ASSUME CfgParserAssumption ==
    /\ Quoteless \subseteq Texts
    /\ Cut \in [Texts -> Seq(Texts)]
    /\ \A t \in Texts : /\ Len(Cut[t]) <= 2
                        /\ Cut[t] # <<>> => Cut[t][1] \in Quoteless
                        /\ Len(Cut[t]) = 1 => Cut[t] = <<t>>

(* An option is --name="text"; a comment reaches to the end of its line and
   takes the newline with it.                                               *)
Token ==
    [kind: {"word", "quoted"}, text: Texts]
    \cup [kind: {"option"}, name: Texts, text: Texts]
    \cup [kind: {"newline", "comment"}]

(* The tokens of some kinds, in their order.                                *)
OfKinds(tokens, kinds) ==
    LET To[n \in 0..Len(tokens)] ==
          IF n = 0 THEN <<>>
          ELSE IF tokens[n].kind \in kinds THEN Append(To[n - 1], tokens[n])
          ELSE To[n - 1]
    IN  To[Len(tokens)]

-----------------------------------------------------------------------------
(* config.pest                                                              *)

(* Rule COMMENT is skipped wherever white space is: between the words of a
   command, too, newline and all.                                           *)
Visible(text) == OfKinds(text, {"word", "quoted", "option", "newline"})

(* What stands between newlines; the last is what follows the last of them. *)
Lines(tokens) ==
    LET To[n \in 0..Len(tokens)] ==
          IF n = 0 THEN << <<>> >>
          ELSE LET done == To[n - 1] IN
               IF tokens[n].kind = "newline" THEN Append(done, <<>>)
               ELSE [done EXCEPT ![Len(done)] = Append(@, tokens[n])]
    IN  To[Len(tokens)]

(* A command word without digits or capitals is a whole word.               *)
IsCommandWord(t) == Cut[t] = <<t>>

(* Rules command_argument and command_option.                               *)
IsOperand(token) ==
    CASE token.kind = "word" -> token.text \in Quoteless
      [] token.kind = "option" -> IsCommandWord(token.name)
      [] OTHER -> TRUE

(* Rule command: what is left of its first word is the first operand.       *)
IsCommand(line) ==
    /\ line # <<>>
    /\ line[1].kind = "word"
    /\ Cut[line[1].text] # <<>>
    /\ Len(Cut[line[1].text]) = 2 => Cut[line[1].text][2] \in Quoteless
    /\ \A i \in 2..Len(line) : IsOperand(line[i])

(* Rule config: a command or more, and a newline behind the last.           *)
IsConfig(text) ==
    LET lines == Lines(Visible(text)) IN
    /\ Len(lines) > 1
    /\ lines[Len(lines)] = <<>>
    /\ \A i \in 1..(Len(lines) - 1) : IsCommand(lines[i])

-----------------------------------------------------------------------------
(* SysConfigParser::parse_config                                            *)

OptionsOf(line) == OfKinds(line, {"option"})

(* The first value given for an option is kept.                             *)
OptionMap(options) ==
    [n \in {options[i].name : i \in DOMAIN options} |->
        LET i == CHOOSE i \in DOMAIN options :
                    /\ options[i].name = n
                    /\ \A j \in 1..(i - 1) : options[j].name # n
        IN  options[i].text]

Arguments(line) ==
    LET rest == OfKinds(Tail(line), {"word", "quoted"}) IN
    Tail(Cut[line[1].text]) \o [i \in DOMAIN rest |-> rest[i].text]

(* A Keyword; an Option is a sequence of length 0 or 1, and a HashMap is a
   function on the keys it has.                                             *)
KeywordOf(line) ==
    [name |-> Cut[line[1].text][1],
     options |-> IF OptionsOf(line) = <<>> THEN <<>> ELSE <<OptionMap(OptionsOf(line))>>,
     arguments |-> Arguments(line)]

(* A faulty variant of ParseConfig: the options are not reset for the next
   command.                                                                 *)
ParseConfigCarrying(text) ==
    LET lines == Lines(Visible(text))
        so_far(i) == FoldLeft(LAMBDA x, y : x \o OptionsOf(y), <<>>, SubSeq(lines, 1, i))
    IN
    [i \in 1..(Len(lines) - 1) |->
        [KeywordOf(lines[i]) EXCEPT
            !.options = IF so_far(i) = <<>> THEN <<>> ELSE <<OptionMap(so_far(i))>>]]

(* The keywords of a text the grammar reads.  Which keywords and options
   were added to the parser is not looked at.                               *)
ParseConfig(text) ==
    LET lines == Lines(Visible(text)) IN
    [i \in 1..(Len(lines) - 1) |-> KeywordOf(lines[i])]
=============================================================================
