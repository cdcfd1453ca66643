------------------------------ MODULE Encoding ------------------------------
(* previewMessage and the same steps of sendMessage: a body is normalised, analysed for the
   encoding it needs and packed into parts (sms-encoding, sms-api procedures.rs preview).
   A character is its class: what GSM 03.38 and UTF-16 spend on it, and what stands for it. *)
EXTENDS Integers, Sequences, SequencesExt, Runs

CONSTANTS
  Gsm7Single, Gsm7Concatenated,    \* GSM7_SINGLE, GSM7_CONCATENATED
  Ucs2Single, Ucs2Concatenated,    \* UCS2_SINGLE, UCS2_CONCATENATED
  MaxParts,                        \* u8::MAX: "the UDH ceiling"
  MaxBody                          \* bound: characters in a body

ASSUME EncodingAssumption ==
  /\ \A n \in {Gsm7Single, Gsm7Concatenated, Ucs2Single, Ucs2Concatenated} : n \in Nat /\ n >= 2
  /\ Gsm7Concatenated <= Gsm7Single /\ Ucs2Concatenated <= Ucs2Single
  /\ MaxParts \in Nat \ {0} /\ MaxBody \in Nat

(* What may be typed. "letter" is in the basic table and composes with "acute", a combining
   mark, to a "plain" one; "escape" is in the extension table; "accent" is a letter that
   only its decomposition brings back; nothing stands for "han" and "emoji". *)
Chars == {"letter", "escape", "quote", "dots", "blank", "accent", "acute", "han", "emoji"}

Glyphs == Chars \cup {"plain"}

VARIABLE body

evars == <<body>>

EInit == body = <<>>

(* A person types one more character. *)
Type(c) == Len(body) < MaxBody /\ body' = Append(body, c)
ENext == \E c \in Chars : Type(c)
ESpec == EInit /\ [][ENext]_evars

(* classify and septets; len_utf16. *)
IsGsm7(c) == c \in {"letter", "plain", "escape"}
Septets(c) == IF c = "escape" THEN 2 ELSE 1
LenUtf16(c) == IF c = "emoji" THEN 2 ELSE 1

(* The table of normalise.rs: a quote, an ellipsis, an invisible character. *)
Substitutions == [quote |-> <<"plain">>, dots |-> <<"plain", "plain", "plain">>, blank |-> <<>>]

(* Unicode's composition, of a letter and the mark right after it. *)
Compose(out, c) ==
  IF c = "acute" /\ out # <<>> /\ Last(out) = "letter" THEN Append(Front(out), "plain") ELSE Append(out, c)
Nfc(s) == Run([i \in DOMAIN s |-> [out \in Seq(Glyphs) |-> Compose(out, s[i])]], <<>>)

InPlaceOf(c, table) == IF c \in DOMAIN table THEN table[c] ELSE <<c>>
Replaced(s, table) == Run([i \in DOMAIN s |-> [out \in Seq(Glyphs) |-> out \o InPlaceOf(s[i], table)]], <<>>)

Normalise(s) == Replaced(Nfc(s), Substitutions)

(* replacement_for: a substitution, or the letter without its mark; transliterate_to_gsm7. *)
Transliterate(s) ==
  Replaced(s, [c \in DOMAIN Substitutions \cup {"accent"} |->
                 IF c = "accent" THEN <<"letter">> ELSE Substitutions[c]])

(* What the first characters cost together, and all of them. *)
Adding(costs) == [i \in DOMAIN costs |-> [n \in Nat |-> n + costs[i]]]
Totals(costs) == Course(Adding(costs), 0)
Sum(costs) == Run(Adding(costs), 0)
AtMost(n, max) == IF n > max THEN max ELSE n

(* Variant: as many parts as the length divides into. *)
PackByDivision(costs, single, concatenated) ==
  [length |-> Sum(costs), perSegment |-> IF Sum(costs) <= single THEN single ELSE concatenated,
   segments |-> IF Sum(costs) <= single THEN 1
                ELSE AtMost((Sum(costs) + concatenated - 1) \div concatenated, MaxParts)]

(* Parts filled one after the other with no character split. *)
Filling == [parts : Nat, used : Nat]
Fill(p, cost, size) ==
  IF p.used + cost > size THEN [parts |-> p.parts + 1, used |-> cost]
                          ELSE [parts |-> p.parts, used |-> p.used + cost]
Filled(costs, size) ==
  Run([i \in DOMAIN costs |-> [p \in Filling |-> Fill(p, costs[i], size)]], [parts |-> 1, used |-> 0]).parts

(* pack: one part, or as many as are filled. *)
Pack(costs, single, concatenated) ==
  IF Sum(costs) <= single
    THEN [length |-> Sum(costs), segments |-> 1, perSegment |-> single]
    ELSE [length |-> Sum(costs), segments |-> AtMost(Filled(costs, concatenated), MaxParts),
          perSegment |-> concatenated]

(* analyse: GSM-7 if every character has it, else UCS-2 and a rewrite that would fit. *)
Analyse(s) ==
  LET offending == {c \in Range(s) : ~ IsGsm7(c)}
      gsm7 == offending = {}
      candidate == Transliterate(s)
  IN [encoding |-> IF gsm7 THEN "gsm7" ELSE "ucs2",
      packing |-> IF gsm7 THEN Pack([i \in DOMAIN s |-> Septets(s[i])], Gsm7Single, Gsm7Concatenated)
                          ELSE Pack([i \in DOMAIN s |-> LenUtf16(s[i])], Ucs2Single, Ucs2Concatenated),
      offending |-> offending,
      suggestion |-> IF ~ gsm7 /\ (\A i \in DOMAIN candidate : IsGsm7(candidate[i])) /\ candidate # s
                       THEN candidate ELSE <<>>]

(* preview: the body as it will be sent. *)
Preview(s) == Analyse(Normalise(s))

(* The fewest parts of at most size units that hold all of costs, each character whole:
   what may be packed in any way at all. The last part may begin after any j characters from
   which it holds the rest, and those take the fewest parts for themselves. *)
Begins(costs, size, i) == {j \in 0 .. i - 1 : Totals(costs)[i] - Totals(costs)[j] <= size}
LeastTable(costs, size) ==
  Run([i \in DOMAIN costs |-> [least \in [0 .. Len(costs) -> Nat] |->
          [least EXCEPT ![i] = 1 + Min({least[j] : j \in Begins(costs, size, i)})]]],
      [i \in 0 .. Len(costs) |-> 0])
Fewest(costs, size) == LeastTable(costs, size)[Len(costs)]

(* The parts a message is charged for are the fewest that can carry it, in GSM-7 whenever
   the normalised body has it, up to the protocol's ceiling: one when it fits one, and else
   as no packing without a split character could beat (segment.md: "segmentation is a
   packing loop rather than a division. Getting this wrong undercounts by one on exactly the
   bodies where the count matters"). *)
FewestSegments ==
  LET s == Normalise(body)
      r == Preview(body)
      gsm7 == \A i \in DOMAIN s : IsGsm7(s[i])
      costs == [i \in DOMAIN s |-> IF gsm7 THEN Septets(s[i]) ELSE LenUtf16(s[i])]
      size == IF gsm7 THEN [one |-> Gsm7Single, more |-> Gsm7Concatenated]
                      ELSE [one |-> Ucs2Single, more |-> Ucs2Concatenated]
  IN r.packing.segments = AtMost(IF Sum(costs) <= size.one THEN 1 ELSE Fewest(costs, size.more), MaxParts)
=============================================================================
