------------------------------- MODULE Publish -------------------------------
(***************************************************************************)
(* publish.py: what of an event may leave the sensor, and export_day() of  *)
(* export_r2.py over a day.  A text is a set of pieces [what, depth], the  *)
(* depth counting how often the piece is percent-encoded, and more than    *)
(* Rounds in an encoding that nothing undoes; a field of an event is the   *)
(* text that _units() makes of it, which opens a Basic header and a body   *)
(* that is logged in base64.  <<"token", kind, key>> is a beacon or a      *)
(* honeytoken that `key` signs, <<"secret", key>> the AWS secret to such a *)
(* key id.                                                                 *)
(***************************************************************************)
EXTENDS Naturals, Sequences, SequencesExt

CONSTANTS
  Key,         \* the sensor's own key
  Rounds,      \* URL_ROUNDS of decode.py
  PrivateHeaders  \* _PRIVATE_HEADERS, among the fields of a request

Ours(w) == w[1] = "token" /\ w[3] = Key
KeyId == <<"token", "aws_key_id", Key>>

(* url_layers(): what is plain in the text or in one of its decodings.     *)
Plain(text) == {p.what : p \in {q \in text : q.depth = 0}}
Seen(text) == {p.what : p \in {q \in text : q.depth <= Rounds}}

(* _units()                                                                *)
Units(e) == {e.fields[n] : n \in DOMAIN e.fields}

(* Mutant: only what is plain is looked for.                               *)
LeaksPlainly(e) == \E text \in Units(e) : \E w \in Plain(text) : Ours(w)

Leaks(e) == \E text \in Units(e) : \E w \in Seen(text) : Ours(w)

Mark == [what |-> <<"mark">>, depth |-> 0]

(* _redactor(), _rewrite(): tokens that verify, and the given secrets.     *)
Rewrite(text, secrets) ==
  {IF p.depth = 0 /\ (Ours(p.what) \/ p.what \in secrets) THEN Mark ELSE p : p \in text}

TokenFields == {"token", "extra_tokens", "replays"}

(* sanitize(): <<>> when the event cannot be made safe.                    *)
Sanitized(e) ==
  LET kept == [n \in DOMAIN e.fields \ TokenFields |-> e.fields[n]]
      open == [e EXCEPT !.fields = kept]
      secrets == {<<"secret", w[3]>> :
                    w \in {x \in UNION {Plain(t) : t \in Units(open)} : Ours(x) /\ x[2] = "aws_key_id"}}
      out == [e EXCEPT !.fields = [n \in DOMAIN kept |-> Rewrite(kept[n], secrets)]]
  IN IF Leaks(out) THEN <<>> ELSE <<out>>

Redacted == {[what |-> <<"redacted">>, depth |-> 0]}

(* anonymize(): a visitor's secrets go, an attacker's stay, and a          *)
(* credential follows its request.  Addresses, hashed, tell the same.      *)
Anonymized(e, attacking) ==
  LET private == \/ e.kind = "request" /\ e.tells.attacks = {}
                 \/ e.kind = "credential" /\ e.rid \notin attacking
      hidden == CASE private /\ e.kind = "request"    -> PrivateHeaders
                  [] private /\ e.kind = "credential" -> {"password"}
                  [] e.kind = "identity" /\ e.tells.verdict # "verified" -> {"rdns"}
                  [] OTHER -> {}
      gone == IF private /\ e.kind = "request" THEN {"body"} ELSE {}
  IN [e EXCEPT !.fields = [n \in DOMAIN e.fields \ gone |->
        IF n \in hidden THEN Redacted ELSE e.fields[n]]]

(* Mutant: all requests but those known to carry no attack.                *)
NotBenign(file) ==
  {e.rid : e \in ToSet(file)} \ {e.rid : e \in {x \in ToSet(file) : x.kind = "request" /\ x.tells.attacks = {}}}

(* attack_rids, from the first pass over the day.                          *)
Attacking(file) == {e.rid : e \in {x \in ToSet(file) : x.kind = "request" /\ x.tells.attacks # {}}}

(* export_day(): the second pass.                                          *)
ExportDay(file) ==
  FlattenSeq([i \in DOMAIN file |->
    [j \in DOMAIN Sanitized(file[i]) |-> Anonymized(Sanitized(file[i])[j], Attacking(file))]])
=============================================================================
