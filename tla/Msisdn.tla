------------------------------- MODULE Msisdn -------------------------------
(* What sendMessage, the lookups and the route table make of a telephone number as it was
   typed (sms-msisdn): one spelling for one subscriber, its line type by the country's plan,
   and its operator by the longest prefix of a table. A digit is a character; numbers and
   plans are short, with every way they are written. *)
EXTENDS Encoding

CONSTANTS
  Keys,            \* the characters that may be typed
  Regions,         \* regions a caller may dial from; "CM" is the default
  CodeOf,          \* region -> its calling code, a digit
  Idd,             \* region -> what it dials before another country's code
  General,         \* region -> the national numbers of its plan
  Plan,            \* region -> line types it distinguishes -> the national numbers of each
  PrefixRows,      \* the tables of (prefix, operator) rows to look operators up in
  MaxE164,         \* MAX_E164_DIGITS
  LegacyLen,       \* digits of a Cameroon number before 2014
  MaxTyped         \* bound: characters typed

Digits == {"0", "2", "6", "8"}
Separators == {"-"}

(* Regions that share a calling code share its plan, no plan has the empty number, and the rows
   of a table have texts for prefixes. *)
ASSUME MsisdnAssumption ==
  /\ {MaxE164, LegacyLen, MaxTyped} \subseteq Nat /\ "CM" \in Regions
  /\ \A r \in Regions : CodeOf[r] \in Digits /\ Idd[r] \in Seq(Digits) /\ <<>> \notin General[r]
  /\ \A r, q \in Regions : CodeOf[r] = CodeOf[q] => General[r] = General[q] /\ Plan[r] = Plan[q]
  /\ \A rows \in PrefixRows :
       rows \in Seq(Range(rows)) /\ \A row \in Range(rows) : row.prefix \in Seq(Range(row.prefix))

VARIABLES typed, prefixRows
nvars == <<typed, prefixRows>>

NInit == typed = <<>> /\ prefixRows \in PrefixRows

(* sanitise: separators go, a plus may stand once and before any digit, nothing else may. *)
Reading == [error : {"none", "InvalidCharacter"}, digits : Seq(Digits), plus : BOOLEAN]
Read(s, c) ==
  CASE c \in Separators -> s
    [] c = "+" /\ ~s.plus /\ s.digits = <<>> -> [s EXCEPT !.plus = TRUE]
    [] c \in Digits -> [s EXCEPT !.digits = Append(@, c)]
    [] OTHER -> [s EXCEPT !.error = "InvalidCharacter"]
Sanitise(input) ==
  LET all == Run([i \in DOMAIN input |-> [s \in Reading |-> Read(s, input[i])]],
                 [error |-> "none", digits |-> <<>>, plus |-> FALSE])
  IN IF all.error = "none" /\ all.digits = <<>> THEN [all EXCEPT !.error = "Empty"] ELSE all

(* The next character: what is refused already stays refused. *)
Press(c) ==
  /\ Len(typed) < MaxTyped /\ Sanitise(typed).error # "InvalidCharacter"
  /\ typed' = Append(typed, c) /\ UNCHANGED prefixRows
NNext == \E c \in Keys : Press(c)

(* ---- the country's plan ---- *)
Has(r, type, national) == type \in DOMAIN Plan[r] /\ national \in Plan[r][type]
(* Upstream's order of the types that cannot be told from a subscriber's line by shape. *)
ServiceTypes == <<"premium_rate", "toll_free", "shared_cost", "voip", "personal_number", "pager", "uan", "voicemail">>

(* line_type_of. A plan with one pattern for fixed and mobile does not tell them apart. *)
LineTypeOf(r, national) ==
  LET services == {i \in DOMAIN ServiceTypes : Has(r, ServiceTypes[i], national)} IN
  CASE national \notin General[r] -> "unallocated"
    [] national \in General[r] /\ services # {} ->
         ServiceTypes[CHOOSE i \in services : \A j \in services : i <= j]
    [] national \in General[r] /\ services = {} ->
         IF Has(r, "fixed_line", national)
           THEN IF Has(r, "mobile", national) THEN "fixed_line_or_mobile" ELSE "fixed_line"
           ELSE IF Has(r, "mobile", national) THEN "mobile" ELSE "unallocated"
IsAddressable(type) == type \in {"mobile", "fixed_line_or_mobile"}
(* Some type of the plan has numbers of that length, or none says. *)
LengthIsPossible(r, len) ==
  LET lengths == UNION {{Len(n) : n \in Plan[r][type]} : type \in DOMAIN Plan[r]}
  IN lengths = {} \/ len \in lengths

(* ---- phonenumber::parse: which country, and which digits are the national number ---- *)
(* A plus, or the region's own international prefix, and a calling code follows; else the
   region's own code may stand before a number that is none without it. *)
AfterCode(digits) ==
  LET owners == {r \in Regions : digits # <<>> /\ CodeOf[r] = Head(digits)} IN
  IF owners = {} THEN [error |-> "UnknownCountryCode"]
  ELSE [error |-> "none", region |-> CHOOSE r \in owners : TRUE, national |-> Tail(digits)]
Dial(r, s) ==
  LET digits == s.digits
      idd == Idd[r] IN
  CASE Len(digits) < 2 -> [error |-> "BadLength"]
    [] Len(digits) >= 2 /\ s.plus -> AfterCode(digits)
    [] Len(digits) >= 2 /\ ~s.plus /\ IsStrictPrefix(idd, digits) ->
         AfterCode(SubSeq(digits, Len(idd) + 1, Len(digits)))
    [] OTHER ->
         [error |-> "none", region |-> r,
          national |-> IF Head(digits) = CodeOf[r] /\ digits \notin General[r] /\ Tail(digits) \in General[r]
                         THEN Tail(digits) ELSE digits]

(* ---- Msisdn::parse_in ---- *)
Refused(why) == [error |-> why, e164 |-> <<>>, type |-> "unallocated"]
(* The national number is too long, is of an allocated line, or is refused. *)
Judged(region, national, type) ==
  IF 1 + Len(national) > MaxE164 THEN Refused("BadLength")
  ELSE IF type # "unallocated"
    THEN [error |-> "none", e164 |-> <<"+", CodeOf[region]>> \o national, type |-> type]
  ELSE Refused(IF region = "CM" /\ Len(national) = LegacyLen /\ Head(national) # "8" THEN "LegacyEightDigit"
               ELSE IF LengthIsPossible(region, Len(national)) THEN "Unallocated" ELSE "BadLength")
(* What phonenumber::parse makes of the dialled digits. *)
Dialled(at) ==
  IF at.error # "none" THEN Refused(at.error)
  ELSE Judged(at.region, at.national, LineTypeOf(at.region, at.national))
(* The input with its separators taken out, read against the region. *)
Parsed(s, r) == IF s.error # "none" THEN Refused(s.error) ELSE Dialled(Dial(r, s))
ParseIn(input, r) == Parsed(Sanitise(input), r)
(* parse_mobile_in: what an SMS can reach. *)
ParseMobileIn(input, r) ==
  LET m == ParseIn(input, r) IN
  IF m.error = "none" /\ ~IsAddressable(m.type) THEN Refused("NotAddressable") ELSE m

(* ---- OperatorPrefixTable ---- *)
(* Rows that are no prefix are dropped; the longest come first, and of equal length the one
   written first. *)
Usable(row) == row.prefix # <<>> /\ Range(row.prefix) \subseteq Digits
Placed(out, row) ==
  LET shorter == {i \in DOMAIN out : Len(out[i].prefix) < Len(row.prefix)}
  IN InsertAt(out, Min(shorter \cup {Len(out) + 1}), row)
Entries(rows) ==
  Run([i \in DOMAIN rows |-> [out \in Seq(Range(rows)) |->
         IF Usable(rows[i]) THEN Placed(out, rows[i]) ELSE out]], <<>>)
LookupNational(rows, national) ==
  LET entries == Entries(rows)
      matching == {i \in DOMAIN entries : IsPrefix(entries[i].prefix, national)} IN
  IF matching = {} THEN "none" ELSE entries[CHOOSE i \in matching : \A j \in matching : i <= j].operator

(* An input without its separators. *)
Stripped(input) ==
  Run([i \in DOMAIN input |-> [out \in Seq(Keys) |->
         IF input[i] \in Separators THEN out ELSE Append(out, input[i])]], <<>>)

(* One subscriber has one spelling, whatever was typed and wherever: what a number was
   parsed to parses to itself from every region, with the same line type; and whoever is
   reached by it is reached the same way with the separators left out and, from the region
   itself, with the international prefix in place of the plus (messages are counted, found
   and blocked by that spelling: msisdn_hash in procedures.rs). *)
OneNumberPerSubscriber ==
  \A r \in Regions :
    LET m == ParseIn(typed, r)
        digits == SubSeq(m.e164, 2, Len(m.e164)) IN
    m.error = "none" =>
      /\ \A q \in Regions : /\ ParseIn(m.e164, q) = m
                            /\ ParseIn(Idd[q] \o digits, q) = m
                            /\ ParseMobileIn(m.e164, q).error = ParseMobileIn(typed, r).error
      /\ ParseIn(Stripped(typed), r) = m

(* The operator a number is routed by is that of the longest prefix any usable row gives it,
   in whatever order the rows come from the database (operator.rs, longest_prefix_wins). *)
LongestPrefixWins ==
  LET m == ParseIn(typed, "CM")
      national == SubSeq(m.e164, 3, Len(m.e164))
      fit == {i \in DOMAIN prefixRows : Usable(prefixRows[i]) /\ IsPrefix(prefixRows[i].prefix, national)}
      longest == {i \in fit : \A j \in fit : Len(prefixRows[j].prefix) <= Len(prefixRows[i].prefix)}
  IN m.error = "none" /\ CodeOf["CM"] = m.e164[2] =>
       LookupNational(prefixRows, national)
         \in IF fit = {} THEN {"none"} ELSE {prefixRows[i].operator : i \in longest}

(* Both: the spelling a number is kept under, and the operator it is routed by, are functions
   of the subscriber and not of how a caller or an operator of the gateway wrote it down
   (sms-msisdn, Msisdn::parse_in and OperatorPrefixTable). *)
NumbersAgree == OneNumberPerSubscriber /\ LongestPrefixWins

---------------------------------------------------------------------------
(* The texts of a message, its body and its number, as they are typed. *)
TInit == EInit /\ NInit
TNext == (ENext /\ UNCHANGED nvars) \/ (NNext /\ UNCHANGED evars)
TSpec == TInit /\ [][TNext]_<<evars, nvars>>

(* What sendMessage is given is read for what it is: the body is packed into the fewest parts
   (FewestSegments) and the number belongs to one subscriber, however it is written
   (NumbersAgree). *)
TextsAreReadRight == FewestSegments /\ NumbersAgree
=============================================================================
