----------------------------- MODULE PollDraft -----------------------------
(***************************************************************************)
(* The form of CreatePollPage, and what the backend accepts of it. A text  *)
(* stands for what the page's trim leaves of it, and the options are a     *)
(* bag: their order matters to nobody here. The page is JavaScript and the *)
(* backend Go: each has its own lower case, its own blanks and its own     *)
(* count of a length. A question is "unfit" for the page (under 5 or over  *)
(* 300 UTF-16 units), or it is sent, and is "fit", "wide" (over 300 bytes) *)
(* or "narrow" (under 5 runes, or under 5 bytes once Go has trimmed it).   *)
(* Settings and duration are left out.                                     *)
(***************************************************************************)
EXTENDS Naturals, FiniteSets, Functions

CONSTANTS
  Texts,       \* what an option may be
  Blank,       \* the empty text
  Lower,       \* text -> what the page compares of it: toLowerCase
  GoLower,     \* text -> what the backend compares of it: decoded, trimmed, ToLower
  GoBlank,     \* texts of which the backend's trim leaves nothing
  Long,        \* texts of more than 100 bytes
  Templates,   \* the quick templates: question and options
  MaxOptions   \* 10

Questions == {"unfit", "fit", "wide", "narrow"}
Bags      == [Texts -> 0..MaxOptions]
Size(o)   == SumFunction(o)

(* The texts are finitely many: a JavaScript string has a greatest length.  *)
ASSUME DraftAssumption ==
  /\ IsFiniteSet(Texts) /\ Blank \in Texts
  /\ Long \subseteq Texts /\ GoBlank \subseteq Texts
  /\ Lower \in [Texts -> Texts] /\ GoLower \in [Texts -> Texts]
  /\ MaxOptions \in Nat \ {0, 1}
  /\ Templates \subseteq [question : {"fit"}, options : Bags]
  /\ \A t \in Templates : Size(t.options) \in 2..MaxOptions

With(o, t)    == [o EXCEPT ![t] = @ + 1]
Without(o, t) == [o EXCEPT ![t] = @ - 1]

NewDraft == [question |-> "unfit", options |-> [t \in Texts |-> IF t = Blank THEN 2 ELSE 0]]

applyTemplate(d, t) == [d EXCEPT !.question = t.question, !.options = t.options]
setQuestion(d, q)   == [d EXCEPT !.question = q]

OneMore(d) ==  \* mutant: one option more than the limit
  IF Size(d.options) > MaxOptions THEN d ELSE [d EXCEPT !.options = With(@, Blank)]

(* The button, or Enter in the last option.                                 *)
handleAddOption(d) ==
  IF Size(d.options) >= MaxOptions THEN d ELSE [d EXCEPT !.options = With(@, Blank)]

RemoveToOne(d, t) ==  \* mutant: the last but one option can be removed
  IF Size(d.options) < 2 THEN d ELSE [d EXCEPT !.options = Without(@, t)]

handleRemoveOption(d, t) ==
  IF Size(d.options) <= 2 THEN d ELSE [d EXCEPT !.options = Without(@, t)]

handleOptionChange(d, t, u) == [d EXCEPT !.options = With(Without(@, t), u)]

(* What the form's controls make of it.                                     *)
Edited(d) ==
  LET In == {t \in Texts : d.options[t] > 0} IN
    {applyTemplate(d, t) : t \in Templates} \cup {setQuestion(d, q) : q \in Questions}
    \cup {handleAddOption(d)} \cup {handleRemoveOption(d, t) : t \in In}
    \cup UNION {{handleOptionChange(d, t, u) : u \in Texts} : t \in In}

Filled(o, blank)   == \A t \in blank : o[t] = 0
Distinct(o, lower) == \A t, u \in Texts : lower[t] = lower[u] /\ o[t] > 0 /\ o[u] > 0 =>
                                            t = u /\ o[t] = 1

(* The page's own check.                                                    *)
validate(d) ==
  d.question # "unfit" /\ Filled(d.options, {Blank}) /\ Distinct(d.options, Lower)

(* What gin binds to a CreatePollRequest, and of it what                    *)
(* ValidateCreatePollRequest lets through.                                  *)
Binds(d) == d.question \notin {"unfit", "narrow"} /\ Size(d.options) \in 2..MaxOptions

Accepts(d) ==
  /\ Binds(d) /\ d.question # "wide" /\ \A t \in Long : d.options[t] = 0
  /\ Filled(d.options, GoBlank) /\ Distinct(d.options, GoLower)

(* Texts that are the same to both sides, and a form that holds no others.  *)
PlainTexts ==
  {t \in Texts \ Long : GoLower[t] = Lower[t] /\ (t \in GoBlank => t = Blank)}

Plain(d) ==
  /\ d.question \notin {"wide", "narrow"}
  /\ \A t \in Texts : d.options[t] > 0 => t \in PlainTexts
=============================================================================
