----------------------------- MODULE Classifier -----------------------------
(***************************************************************************)
(* The priority of a call that is long enough to be analysed: what         *)
(* InteractionClassifier makes of the transcript and the disposition.      *)
(*                                                                         *)
(* The code looks for keywords as substrings of the whole text.  A text is *)
(* here the set of phrases in it, and Inside tells which keywords occur in *)
(* a phrase; no keyword spans two turns, as each turn begins with its role.*)
(***************************************************************************)

HighKeywords == {"confirmed", "booked", "demo", "appointment", "reschedule", "manager",
                 "complaint", "escalate", "unacceptable"}

MediumKeywords == {"callback", "call back", "later", "baad mein", "follow-up"}

LowKeywords == {"not interested", "dont call", "don't call", "wrong number",
                "already booked", "already purchased", "already done"}

\* The keywords that are substrings of a phrase.  One of the LOW list contains one of the
\* HIGH list, and never decides.
Inside(p) ==
  ({p} \cap (HighKeywords \cup MediumKeywords \cup LowKeywords))
    \cup (IF p = "already booked" THEN {"booked"} ELSE {})

Contained(text) == UNION {Inside(p) : p \in text}

\* Mutant: the cheap outcomes are looked for first.
ClassifyLowFirst(text) ==
  CASE Contained(text) \cap LowKeywords # {}  -> "LOW"
    [] Contained(text) \cap LowKeywords = {} /\ Contained(text) \cap HighKeywords # {} -> "HIGH"
    [] OTHER -> "MEDIUM"

\* classify: the first list that has a keyword in the text, else MEDIUM.
Classify(text) ==
  IF Contained(text) \cap HighKeywords # {} THEN "HIGH"
  ELSE IF Contained(text) \cap MediumKeywords # {} THEN "MEDIUM"
  ELSE IF Contained(text) \cap LowKeywords # {} THEN "LOW"
  ELSE "MEDIUM"
=============================================================================
