--------------------------- MODULE ControlProofs ----------------------------
(***************************************************************************)
(* TLAPS proofs about the control plane: the grain that keeps a queue's    *)
(* settings, the rate limit they set, and the cron scheduler.  They share  *)
(* no state, and a name that two of them have is declared once.            *)
(***************************************************************************)
EXTENDS Admin, WellFoundedInduction, TLAPS

-----------------------------------------------------------------------------
(* Admin *)

AnyValue == BOOLEAN \cup RateLimit \cup MaxActive \cup {Absent, DefaultRateLimit}
Place == {"idle", "OK", "Internal", "InvalidArgument", "persist", "tell", "wait"}
Message == [call : Call \cup {Absent}, setting : Setting, value : AnyValue]

\* The places of an activation that has read the setting.
After(f) ==
    CASE f = "paused" -> {"rateLimit", "maxActive", "up"}
      [] f = "rateLimit" -> {"maxActive", "up"}
      [] f = "maxActive" -> {"up"}

\* A change of f that is persisted and that the grain has still to handle.
Underway(f) ==
    \/ \E c \in Call : calls[c].setting = f /\ calls[c].at = "tell"
    \/ \E i \in DOMAIN inbox : inbox[i].setting = f

GrainTypeOK ==
    /\ stored \in [Setting -> AnyValue] /\ \A f \in Setting : stored[f] \in Values(f)
    /\ live \in [Setting -> AnyValue]
    /\ activation \in {"down", "up"} \cup Setting
    /\ calls \in [Call -> [setting : Setting, value : AnyValue \cup {Invalid}, at : Place]]
    /\ \A c \in Call : calls[c].at \in {"persist", "tell", "wait"} =>
           calls[c].value \in AnyValue /\ calls[c].value \in Values(calls[c].setting)
    /\ inbox \in Seq(Message)
    /\ \A i \in DOMAIN inbox : inbox[i].value \in Values(inbox[i].setting)
    /\ faults \in 0..MaxFaults
    /\ told \subseteq Setting /\ overlapped \subseteq Setting

\* A message is of a call that waits for it, unless the caller was told.
MailInv ==
    /\ activation = "down" => inbox = <<>>
    /\ \A i \in DOMAIN inbox :
         /\ inbox[i].call # Absent =>
              /\ calls[inbox[i].call].at = "wait"
              /\ calls[inbox[i].call].setting = inbox[i].setting
              /\ calls[inbox[i].call].value = inbox[i].value
         /\ inbox[i].setting \notin told => inbox[i].call # Absent
    /\ \A i, j \in DOMAIN inbox : inbox[i].call = inbox[j].call /\ inbox[i].call # Absent => i = j

\* Without an overlap one request changes the setting, and what it persisted
\* is what is stored.
AloneInv ==
    \A f \in Setting \ overlapped : \A c \in changing(f) :
        /\ \A d \in changing(f) : c = d
        /\ f # "paused" /\ calls[c].at \in {"tell", "wait"} => stored[f] = calls[c].value

\* The grain has what is stored, or a change is on its way to it.
LiveInv ==
    \A f \in Setting :
        activation \in After(f) /\ f \notin told /\ (f = "paused" \/ f \notin overlapped) =>
            live[f] = effective(f, stored[f]) \/ Underway(f)

GrainInv == GrainTypeOK /\ MailInv /\ AloneInv /\ LiveInv

LEMMA ValuesAreAny ==
  ASSUME NEW f \in Setting
  PROVE  Values(f) \subseteq AnyValue
BY DEF Setting, Values, AnyValue

LEMMA EffectiveIsAny ==
  ASSUME NEW f \in Setting, NEW v \in AnyValue
  PROVE  effective(f, v) \in AnyValue
BY DEF effective, limiterOf, AnyValue

LEMMA AppendMail ==
  ASSUME NEW S, NEW s \in Seq(S), NEW e \in S
  PROVE  /\ Append(s, e) \in Seq(S) /\ DOMAIN s \subseteq DOMAIN Append(s, e)
         /\ \A i \in DOMAIN s : Append(s, e)[i] = s[i]
         /\ \A i \in DOMAIN Append(s, e) : i \in DOMAIN s \/ (i = Len(s) + 1 /\ Append(s, e)[i] = e)
         /\ Len(s) + 1 \in DOMAIN Append(s, e) /\ Append(s, e)[Len(s) + 1] = e
OBVIOUS

LEMMA TailMail ==
  ASSUME NEW S, NEW s \in Seq(S), s # <<>>
  PROVE  /\ 1 \in DOMAIN s /\ Head(s) = s[1] /\ Head(s) \in S
         /\ Tail(s) \in Seq(S)
         /\ \A i \in DOMAIN Tail(s) : i + 1 \in DOMAIN s /\ Tail(s)[i] = s[i + 1] /\ i + 1 # 1 /\ i \in Int
         /\ \A i \in DOMAIN s : i = 1 \/ (i - 1 \in DOMAIN Tail(s) /\ Tail(s)[i - 1] = s[i])
OBVIOUS

\* The six requests of the API are one handler with a setting and a value.
LEMMA GrainRequest ==
  ASSUME GrainInv, NEW c \in Call, NEW f \in Setting, NEW v \in Values(f) \cup {Invalid},
         request(c, f, v)
  PROVE  GrainInv'
<1> DEFINE p == IF v = Invalid THEN "InvalidArgument" ELSE "persist"
<1>1. /\ UNCHANGED <<stored, live, activation, inbox, faults, told>>
      /\ calls[c].at \in {"idle", "OK", "Internal", "InvalidArgument"}
      /\ calls' = [calls EXCEPT ![c] = [setting |-> f, value |-> v, at |-> p]]
      /\ overlapped' = IF v # Invalid /\ changing(f) \ {c} # {} THEN overlapped \cup {f} ELSE overlapped
  BY DEF request
<1>2. Values(f) \subseteq AnyValue
  BY ValuesAreAny
<1>3. calls \in [Call -> [setting : Setting, value : AnyValue \cup {Invalid}, at : Place]]
  BY DEF GrainInv, GrainTypeOK
<1>4. /\ calls'[c] = [setting |-> f, value |-> v, at |-> p]
      /\ \A d \in Call : d # c => calls'[d] = calls[d]
  BY <1>1, <1>3
<1>5. GrainTypeOK'
  <2>1. [setting |-> f, value |-> v, at |-> p] \in [setting : Setting, value : AnyValue \cup {Invalid}, at : Place]
    BY <1>2 DEF Place
  <2>2. calls' \in [Call -> [setting : Setting, value : AnyValue \cup {Invalid}, at : Place]]
    BY <1>1, <1>3, <2>1
  <2>3. \A d \in Call : calls'[d].at \in {"persist", "tell", "wait"} =>
            calls'[d].value \in AnyValue /\ calls'[d].value \in Values(calls'[d].setting)
    BY <1>2, <1>4 DEF GrainInv, GrainTypeOK
  <2> QED
    BY <1>1, <2>2, <2>3 DEF GrainInv, GrainTypeOK
<1>6. MailInv'
  BY <1>1, <1>4 DEF GrainInv, MailInv, GrainTypeOK, Message
<1>7. AloneInv'
  BY <1>1, <1>4 DEF GrainInv, AloneInv, changing
<1>8. LiveInv'
  BY <1>1, <1>4 DEF GrainInv, LiveInv, Underway
<1> QED
  BY <1>5, <1>6, <1>7, <1>8 DEF GrainInv

LEMMA GrainPersist ==
  ASSUME GrainInv, NEW c \in Call, persist(c)
  PROVE  GrainInv'
<1> DEFINE f == calls[c].setting
           v == calls[c].value
<1>1. /\ UNCHANGED <<live, activation, inbox, faults, told, overlapped>>
      /\ calls[c].at = "persist"
      /\ stored' = [stored EXCEPT ![f] = v]
      /\ calls' = [calls EXCEPT ![c].at = "tell"]
  BY DEF persist, at
<1>2. /\ calls \in [Call -> [setting : Setting, value : AnyValue \cup {Invalid}, at : Place]]
      /\ f \in Setting /\ v \in AnyValue /\ v \in Values(f)
      /\ stored \in [Setting -> AnyValue]
  BY <1>1 DEF GrainInv, GrainTypeOK
<1>3. /\ calls'[c].setting = f /\ calls'[c].value = v /\ calls'[c].at = "tell"
      /\ \A d \in Call : d # c => calls'[d] = calls[d]
      /\ calls' \in [Call -> [setting : Setting, value : AnyValue \cup {Invalid}, at : Place]]
  BY <1>1, <1>2 DEF Place
<1>4. stored'[f] = v /\ \A g \in Setting : g # f => stored'[g] = stored[g]
  BY <1>1, <1>2
<1>5. GrainTypeOK'
  <2>1. stored' \in [Setting -> AnyValue] /\ \A g \in Setting : stored'[g] \in Values(g)
    BY <1>1, <1>2, <1>4 DEF GrainInv, GrainTypeOK
  <2> HIDE DEF f, v
  <2> QED
    BY <1>1, <1>2, <1>3, <2>1 DEF GrainInv, GrainTypeOK
<1>6. MailInv'
  BY <1>1, <1>3 DEF GrainInv, MailInv, GrainTypeOK, Message
<1>7. AloneInv'
  BY <1>1, <1>2, <1>3, <1>4 DEF GrainInv, AloneInv, changing
<1>8. LiveInv'
  BY <1>1, <1>2, <1>3, <1>4 DEF GrainInv, LiveInv, Underway
<1> QED
  BY <1>5, <1>6, <1>7, <1>8 DEF GrainInv

LEMMA GrainPersistFails ==
  ASSUME GrainInv, MaxFaults \in Nat, NEW c \in Call, persistFails(c)
  PROVE  GrainInv'
<1>1. /\ UNCHANGED <<stored, live, activation, inbox, told, overlapped>>
      /\ calls[c].at = "persist" /\ faults < MaxFaults /\ faults' = faults + 1
      /\ calls' = [calls EXCEPT ![c].at = "Internal"]
  BY DEF persistFails, at
<1>2. calls \in [Call -> [setting : Setting, value : AnyValue \cup {Invalid}, at : Place]]
  BY DEF GrainInv, GrainTypeOK
<1>3. /\ calls'[c].setting = calls[c].setting /\ calls'[c].value = calls[c].value /\ calls'[c].at = "Internal"
      /\ \A d \in Call : d # c => calls'[d] = calls[d]
      /\ calls' \in [Call -> [setting : Setting, value : AnyValue \cup {Invalid}, at : Place]]
  BY <1>1, <1>2 DEF Place
<1>4. faults' \in 0..MaxFaults
  BY <1>1 DEF GrainInv, GrainTypeOK
<1>5. GrainTypeOK'
  BY <1>1, <1>2, <1>3, <1>4 DEF GrainInv, GrainTypeOK
<1>6. MailInv'
  BY <1>1, <1>3 DEF GrainInv, MailInv, GrainTypeOK, Message
<1>7. AloneInv'
  BY <1>1, <1>2, <1>3 DEF GrainInv, AloneInv, changing
<1>8. LiveInv'
  BY <1>1, <1>2, <1>3 DEF GrainInv, LiveInv, Underway
<1> QED
  BY <1>5, <1>6, <1>7, <1>8 DEF GrainInv

LEMMA GrainTell ==
  ASSUME Absent \notin Call, GrainInv, NEW c \in Call, tellQueue(c)
  PROVE  GrainInv'
<1> DEFINE m == [call |-> c, setting |-> calls[c].setting, value |-> calls[c].value]
           k == Len(inbox) + 1
<1>1. /\ UNCHANGED <<stored, live, faults>>
      /\ calls[c].at = "tell" /\ inbox' = Append(inbox, m)
      /\ activation' = IF activation = "down" THEN "paused" ELSE activation
      /\ calls' = [calls EXCEPT ![c].at = "wait"]
      /\ told' = IF activation = "down" THEN {} ELSE told
      /\ overlapped' = IF activation = "down"
                       THEN {f \in overlapped : changing(f) # {}} ELSE overlapped
  BY DEF tellQueue, at
<1>2. /\ calls \in [Call -> [setting : Setting, value : AnyValue \cup {Invalid}, at : Place]]
      /\ calls[c].value \in AnyValue /\ calls[c].value \in Values(calls[c].setting)
      /\ inbox \in Seq(Message)
  BY <1>1 DEF GrainInv, GrainTypeOK
<1>3. /\ calls'[c].setting = calls[c].setting /\ calls'[c].value = calls[c].value /\ calls'[c].at = "wait"
      /\ \A d \in Call : d # c => calls'[d] = calls[d]
      /\ calls' \in [Call -> [setting : Setting, value : AnyValue \cup {Invalid}, at : Place]]
  BY ZenonT(40), <1>1, <1>2 DEF Place
<1>4. m \in Message /\ m.call = c /\ m.setting = calls[c].setting /\ m.value = calls[c].value
  BY <1>2 DEF Message
<1> HIDE DEF m
<1>5. /\ inbox' \in Seq(Message) /\ DOMAIN inbox \subseteq DOMAIN inbox'
      /\ \A i \in DOMAIN inbox : inbox'[i] = inbox[i]
      /\ \A i \in DOMAIN inbox' : i \in DOMAIN inbox \/ (i = k /\ inbox'[i] = m)
      /\ k \in DOMAIN inbox' /\ inbox'[k] = m
  BY <1>1, <1>2, <1>4, AppendMail
<1> HIDE DEF k
<1>6. GrainTypeOK'
  <2>1. activation' \in {"down", "up"} \cup Setting
    BY <1>1 DEF GrainInv, GrainTypeOK, Setting
  <2>2. told' \subseteq Setting /\ overlapped' \subseteq Setting
    BY <1>1 DEF GrainInv, GrainTypeOK
  <2>3. \A i \in DOMAIN inbox' : inbox'[i].value \in Values(inbox'[i].setting)
    BY <1>2, <1>4, <1>5 DEF GrainInv, GrainTypeOK
  <2>4. \A d \in Call : calls'[d].at \in {"persist", "tell", "wait"} =>
            calls'[d].value \in AnyValue /\ calls'[d].value \in Values(calls'[d].setting)
    BY <1>2, <1>3 DEF GrainInv, GrainTypeOK
  <2> QED
    BY <1>1, <1>3, <1>5, <2>1, <2>2, <2>3, <2>4 DEF GrainInv, GrainTypeOK
<1>7. MailInv'
  <2>1. activation' # "down"
    BY <1>1
  <2>2. \A i \in DOMAIN inbox : inbox[i].call # c
    BY <1>1, <1>2 DEF GrainInv, MailInv, Message
  <2>3. activation = "down" => DOMAIN inbox = {}
    BY DEF GrainInv, MailInv
  <2>4. ASSUME NEW i \in DOMAIN inbox'
        PROVE  /\ inbox'[i].call # Absent =>
                    /\ calls'[inbox'[i].call].at = "wait"
                    /\ calls'[inbox'[i].call].setting = inbox'[i].setting
                    /\ calls'[inbox'[i].call].value = inbox'[i].value
               /\ inbox'[i].setting \notin told' => inbox'[i].call # Absent
    <3>1. CASE i \in DOMAIN inbox
      <4>1. inbox'[i] = inbox[i] /\ inbox[i] \in Message /\ told' = told
        BY <1>1, <1>2, <1>5, <2>3, <3>1
      <4> QED
        BY <1>3, <2>2, <3>1, <4>1 DEF GrainInv, MailInv, Message
    <3>2. CASE i \notin DOMAIN inbox
      BY <1>3, <1>4, <1>5, <3>2
    <3> QED
      BY <3>1, <3>2
  <2>5. \A i, j \in DOMAIN inbox' : inbox'[i].call = inbox'[j].call /\ inbox'[i].call # Absent => i = j
    BY <1>4, <1>5, <2>2 DEF GrainInv, MailInv
  <2> QED
    BY <2>1, <2>4, <2>5 DEF MailInv
<1>8. AloneInv'
  <2>1. \A f : c \in changing(f) <=> f = calls[c].setting
    BY <1>1 DEF changing
  <2>2. \A f : (changing(f))' = changing(f)
    BY <1>1, <1>3 DEF changing
  <2>3. \A f \in Setting \ overlapped' : f \in Setting \ overlapped \/ changing(f) = {}
    BY <1>1
  <2>4. \A d \in Call : calls'[d].value = calls[d].value /\ (calls'[d].at \in {"tell", "wait"} <=> calls[d].at \in {"tell", "wait"})
    BY <1>1, <1>3
  <2> QED
    BY <1>1, <2>2, <2>3, <2>4 DEF GrainInv, AloneInv, changing
<1>9. LiveInv'
  <2> SUFFICES ASSUME NEW f \in Setting, activation' \in After(f), f \notin told',
                      f = "paused" \/ f \notin overlapped'
               PROVE  live'[f] = effective(f, stored'[f]) \/ Underway(f)'
    BY ZenonT(40) DEF LiveInv, After, effective, limiterOf
  <2>1. activation # "down"
    BY <1>1 DEF After, Setting
  <2>2. live[f] = effective(f, stored[f]) \/ Underway(f)
    BY <1>1, <2>1 DEF GrainInv, LiveInv
  <2> QED
    BY <1>1, <1>3, <1>4, <1>5, <2>2 DEF Underway, effective, limiterOf
<1> QED
  BY <1>6, <1>7, <1>8, <1>9 DEF GrainInv

LEMMA GrainTellFails ==
  ASSUME Absent \notin Call, MaxFaults \in Nat, GrainInv, NEW c \in Call, tellFails(c)
  PROVE  GrainInv'
<1>1. /\ UNCHANGED <<stored, live, activation, overlapped>>
      /\ calls[c].at \in {"tell", "wait"} /\ faults < MaxFaults /\ faults' = faults + 1
      /\ calls' = [calls EXCEPT ![c].at = "Internal"]
      /\ inbox' = [i \in DOMAIN inbox |->
                     IF inbox[i].call = c THEN [inbox[i] EXCEPT !.call = Absent] ELSE inbox[i]]
      /\ told' = told \cup {calls[c].setting}
  BY DEF tellFails, at
<1>2. /\ calls \in [Call -> [setting : Setting, value : AnyValue \cup {Invalid}, at : Place]]
      /\ inbox \in Seq(Message) /\ \A i \in DOMAIN inbox : inbox[i] \in Message
  BY DEF GrainInv, GrainTypeOK
<1>3. /\ calls'[c].setting = calls[c].setting /\ calls'[c].value = calls[c].value /\ calls'[c].at = "Internal"
      /\ \A d \in Call : d # c => calls'[d] = calls[d]
      /\ calls' \in [Call -> [setting : Setting, value : AnyValue \cup {Invalid}, at : Place]]
  BY <1>1, <1>2 DEF Place
<1>4. /\ DOMAIN inbox' = DOMAIN inbox
      /\ \A i \in DOMAIN inbox :
           /\ inbox'[i] \in Message
           /\ inbox'[i].setting = inbox[i].setting /\ inbox'[i].value = inbox[i].value
           /\ inbox'[i].call = IF inbox[i].call = c THEN Absent ELSE inbox[i].call
  BY ZenonT(40), <1>1, <1>2 DEF Message
<1>5. inbox' \in Seq(Message)
  <2>1. DOMAIN inbox = 1..Len(inbox) /\ Len(inbox) \in Nat
    BY <1>2
  <2>2. inbox' \in [1..Len(inbox) -> Message]
    BY <1>1, <1>4, <2>1
  <2> QED
    BY <2>1, <2>2
<1>6. GrainTypeOK'
  <2>1. faults' \in 0..MaxFaults /\ told' \subseteq Setting
    BY <1>1, <1>2 DEF GrainInv, GrainTypeOK
  <2> QED
    BY <1>1, <1>2, <1>3, <1>4, <1>5, <2>1 DEF GrainInv, GrainTypeOK
<1>7. MailInv'
  <2>1. inbox = <<>> => inbox' = <<>>
    BY <1>4, <1>5
  <2>2. ASSUME NEW i \in DOMAIN inbox'
        PROVE  /\ inbox'[i].call # Absent =>
                    /\ calls'[inbox'[i].call].at = "wait"
                    /\ calls'[inbox'[i].call].setting = inbox'[i].setting
                    /\ calls'[inbox'[i].call].value = inbox'[i].value
               /\ inbox'[i].setting \notin told' => inbox'[i].call # Absent
    BY <1>1, <1>2, <1>3, <1>4 DEF GrainInv, MailInv, Message
  <2>3. \A i, j \in DOMAIN inbox' : inbox'[i].call = inbox'[j].call /\ inbox'[i].call # Absent => i = j
    BY <1>4 DEF GrainInv, MailInv
  <2> QED
    BY <1>1, <2>1, <2>2, <2>3 DEF GrainInv, MailInv
<1>8. AloneInv'
  BY <1>1, <1>2, <1>3 DEF GrainInv, AloneInv, changing
<1>9. LiveInv'
  BY <1>1, <1>2, <1>3, <1>4 DEF GrainInv, LiveInv, Underway
<1> QED
  BY <1>6, <1>7, <1>8, <1>9 DEF GrainInv

LEMMA GrainActivate ==
  ASSUME GrainInv, OnActivate
  PROVE  GrainInv'
<1>1. /\ UNCHANGED <<stored, inbox, calls, faults, told, overlapped>>
      /\ activation \in Setting
      /\ live' = [live EXCEPT ![activation] = effective(activation, stored[activation])]
      /\ activation' = CASE activation = "paused" -> "rateLimit"
                         [] activation = "rateLimit" -> "maxActive"
                         [] OTHER -> "up"
  BY DEF OnActivate
<1>2. live \in [Setting -> AnyValue] /\ stored[activation] \in AnyValue
  BY <1>1 DEF GrainInv, GrainTypeOK
<1>3. effective(activation, stored[activation]) \in AnyValue
  BY <1>1, <1>2, EffectiveIsAny
<1>4. /\ live'[activation] = effective(activation, stored[activation])
      /\ \A f \in Setting : f # activation => live'[f] = live[f]
      /\ live' \in [Setting -> AnyValue]
  BY <1>1, <1>2, <1>3
<1>5. activation' \in {"rateLimit", "maxActive", "up"}
  BY <1>1
<1>6. GrainTypeOK'
  BY <1>1, <1>4, <1>5 DEF GrainInv, GrainTypeOK, Setting
<1>7. MailInv'
  BY <1>1, <1>5 DEF GrainInv, MailInv
<1>8. AloneInv'
  BY <1>1 DEF GrainInv, AloneInv, changing
<1>9. LiveInv'
  <2> SUFFICES ASSUME NEW f \in Setting, activation' \in After(f), f \notin told,
                      f = "paused" \/ f \notin overlapped
               PROVE  live'[f] = effective(f, stored[f]) \/ Underway(f)
    BY <1>1 DEF LiveInv, Underway, effective, limiterOf
  <2>1. f = activation \/ activation \in After(f)
    BY <1>1 DEF After, Setting
  <2> QED
    BY <1>4, <2>1 DEF GrainInv, LiveInv
<1> QED
  BY <1>6, <1>7, <1>8, <1>9 DEF GrainInv

LEMMA GrainLost ==
  ASSUME MaxFaults \in Nat, GrainInv, grainLost
  PROVE  GrainInv'
<1>1. /\ UNCHANGED <<stored, live, overlapped>>
      /\ faults < MaxFaults /\ faults' = faults + 1
      /\ activation' = "down" /\ inbox' = <<>>
      /\ calls' = [c \in Call |-> IF calls[c].at = "wait" THEN [calls[c] EXCEPT !.at = "Internal"] ELSE calls[c]]
      /\ told' = told \cup {calls[c].setting : c \in {d \in Call : calls[d].at = "wait"}}
  BY DEF grainLost
<1>2. calls \in [Call -> [setting : Setting, value : AnyValue \cup {Invalid}, at : Place]]
  BY DEF GrainInv, GrainTypeOK
<1>3. /\ calls' \in [Call -> [setting : Setting, value : AnyValue \cup {Invalid}, at : Place]]
      /\ \A c \in Call : /\ calls'[c].setting = calls[c].setting /\ calls'[c].value = calls[c].value
                         /\ calls'[c].at = IF calls[c].at = "wait" THEN "Internal" ELSE calls[c].at
  BY <1>1, <1>2 DEF Place
<1>4. GrainTypeOK'
  <2>1. faults' \in 0..MaxFaults /\ told' \subseteq Setting /\ inbox' \in Seq(Message) /\ DOMAIN inbox' = {}
    BY <1>1, <1>2 DEF GrainInv, GrainTypeOK
  <2> QED
    BY <1>1, <1>2, <1>3, <2>1 DEF GrainInv, GrainTypeOK
<1>5. MailInv'
  BY <1>1 DEF MailInv
<1>6. AloneInv'
  BY <1>1, <1>2, <1>3 DEF GrainInv, AloneInv, changing
<1>7. LiveInv'
  BY <1>1 DEF LiveInv, After, Setting
<1> QED
  BY <1>4, <1>5, <1>6, <1>7 DEF GrainInv

\* The grain handles its first message, whatever it answers the caller.
LEMMA GrainHandled ==
  ASSUME Absent \notin Call, GrainInv, inbox # <<>>, NEW outcome \in {"OK", "Internal"},
         activation = "up", activation' = "up", inbox' = Tail(inbox), reply(Head(inbox), outcome),
         told \subseteq told', overlapped' = overlapped
  PROVE  /\ Head(inbox) \in Message /\ Head(inbox).value \in Values(Head(inbox).setting)
         /\ inbox' \in Seq(Message) /\ \A i \in DOMAIN inbox' : inbox'[i].value \in Values(inbox'[i].setting)
         /\ calls' \in [Call -> [setting : Setting, value : AnyValue \cup {Invalid}, at : Place]]
         /\ \A c \in Call : /\ calls'[c].setting = calls[c].setting /\ calls'[c].value = calls[c].value
                            /\ calls'[c].at = IF c = Head(inbox).call THEN outcome ELSE calls[c].at
         /\ MailInv'
         /\ Head(inbox).setting \notin told =>
              \E c \in changing(Head(inbox).setting) : calls[c].at = "wait" /\ calls[c].value = Head(inbox).value
         /\ \A f : Underway(f) => f = Head(inbox).setting \/ Underway(f)'
<1> DEFINE m == Head(inbox)
<1>1. /\ calls \in [Call -> [setting : Setting, value : AnyValue \cup {Invalid}, at : Place]]
      /\ inbox \in Seq(Message) /\ \A i \in DOMAIN inbox : inbox[i] \in Message
      /\ \A i \in DOMAIN inbox : inbox[i].value \in Values(inbox[i].setting)
  BY DEF GrainInv, GrainTypeOK
<1>2. /\ 1 \in DOMAIN inbox /\ m = inbox[1] /\ m \in Message
      /\ inbox' \in Seq(Message)
      /\ \A i \in DOMAIN inbox' : i + 1 \in DOMAIN inbox /\ inbox'[i] = inbox[i + 1] /\ i + 1 # 1 /\ i \in Int
      /\ \A i \in DOMAIN inbox : i = 1 \/ (i - 1 \in DOMAIN inbox' /\ inbox'[i - 1] = inbox[i])
  BY <1>1, TailMail
<1>3. calls' = IF m.call = Absent THEN calls ELSE [calls EXCEPT ![m.call].at = outcome]
  BY DEF reply
<1>4. m.call = Absent \/ m.call \in Call
  BY <1>2 DEF Message
<1> HIDE DEF m
<1>5. /\ calls' \in [Call -> [setting : Setting, value : AnyValue \cup {Invalid}, at : Place]]
      /\ \A c \in Call : /\ calls'[c].setting = calls[c].setting /\ calls'[c].value = calls[c].value
                         /\ calls'[c].at = IF c = m.call THEN outcome ELSE calls[c].at
  BY <1>1, <1>3, <1>4 DEF Place
<1>6. MailInv'
  <2>1. ASSUME NEW i \in DOMAIN inbox', inbox'[i].call # Absent
        PROVE  /\ calls'[inbox'[i].call].at = "wait"
               /\ calls'[inbox'[i].call].setting = inbox'[i].setting
               /\ calls'[inbox'[i].call].value = inbox'[i].value
    <3>1. i + 1 \in DOMAIN inbox /\ inbox'[i] = inbox[i + 1] /\ i + 1 # 1 /\ inbox[i + 1] \in Message
      BY <1>1, <1>2
    <3>2. inbox'[i].call # m.call
      BY <1>2, <2>1, <3>1 DEF GrainInv, MailInv
    <3>3. inbox'[i].call \in Call
      BY <2>1, <3>1 DEF Message
    <3> QED
      BY <1>5, <2>1, <3>1, <3>2, <3>3 DEF GrainInv, MailInv
  <2>2. \A i \in DOMAIN inbox' : inbox'[i].setting \notin told' => inbox'[i].call # Absent
    BY <1>2 DEF GrainInv, MailInv
  <2>3. \A i, j \in DOMAIN inbox' : inbox'[i].call = inbox'[j].call /\ inbox'[i].call # Absent => i = j
    <3> SUFFICES ASSUME NEW i \in DOMAIN inbox', NEW j \in DOMAIN inbox',
                        inbox'[i].call = inbox'[j].call, inbox'[i].call # Absent
                 PROVE  i = j
      OBVIOUS
    <3>1. i + 1 = j + 1
      BY <1>2 DEF GrainInv, MailInv
    <3> QED
      BY <1>2, <3>1
  <2> QED
    BY <2>1, <2>2, <2>3 DEF MailInv
<1>7. ASSUME m.setting \notin told
      PROVE  \E c \in changing(m.setting) : calls[c].at = "wait" /\ calls[c].value = m.value
  <2>1. m.call # Absent
    BY <1>2, <1>7 DEF GrainInv, MailInv
  <2>2. m.call \in Call /\ calls[m.call].at = "wait" /\ calls[m.call].setting = m.setting /\ calls[m.call].value = m.value
    BY <1>2, <1>4, <2>1 DEF GrainInv, MailInv
  <2> QED
    BY <2>2 DEF changing
<1>8. ASSUME NEW f, Underway(f), f # m.setting
      PROVE  Underway(f)'
  <2>1. CASE \E c \in Call : calls[c].setting = f /\ calls[c].at = "tell"
    <3>1. PICK c \in Call : calls[c].setting = f /\ calls[c].at = "tell"
      BY <2>1
    <3>2. c # m.call
      BY <1>2, <3>1 DEF GrainInv, MailInv
    <3> QED
      BY <1>5, <3>1, <3>2 DEF Underway
  <2>2. CASE \E i \in DOMAIN inbox : inbox[i].setting = f
    <3>1. PICK i \in DOMAIN inbox : inbox[i].setting = f
      BY <2>2
    <3>2. i - 1 \in DOMAIN inbox' /\ inbox'[i - 1].setting = f
      BY <1>2, <1>8, <3>1
    <3> QED
      BY <3>2 DEF Underway
  <2> QED
    BY <1>8, <2>1, <2>2 DEF Underway
<1>9. \A i \in DOMAIN inbox' : inbox'[i].value \in Values(inbox'[i].setting)
  BY <1>1, <1>2
<1> QED
  BY <1>1, <1>2, <1>5, <1>6, <1>7, <1>8, <1>9 DEF m

LEMMA GrainReceive ==
  ASSUME Absent \notin Call, GrainInv, OnReceive
  PROVE  GrainInv'
<1> DEFINE m == Head(inbox)
           v == IF m.setting = "paused" THEN m.value ELSE effective(m.setting, m.value)
<1>1. /\ UNCHANGED <<activation, faults, told, overlapped>>
      /\ activation = "up" /\ inbox # <<>> /\ inbox' = Tail(inbox)
      /\ reply(m, "OK")
      /\ IF m.setting = "paused" THEN setPaused(m) ELSE applyLimitChange(m)
  BY DEF OnReceive
<1>2. /\ m \in Message /\ m.value \in Values(m.setting)
      /\ inbox' \in Seq(Message) /\ \A i \in DOMAIN inbox' : inbox'[i].value \in Values(inbox'[i].setting)
      /\ calls' \in [Call -> [setting : Setting, value : AnyValue \cup {Invalid}, at : Place]]
      /\ \A c \in Call : /\ calls'[c].setting = calls[c].setting /\ calls'[c].value = calls[c].value
                         /\ calls'[c].at = IF c = m.call THEN "OK" ELSE calls[c].at
      /\ MailInv'
      /\ m.setting \notin told =>
           \E c \in changing(m.setting) : calls[c].at = "wait" /\ calls[c].value = m.value
      /\ \A f : Underway(f) => f = m.setting \/ Underway(f)'
  BY <1>1, GrainHandled
<1>3. m.setting \in Setting /\ m.value \in AnyValue
  BY <1>2 DEF Message
<1>4. effective(m.setting, m.value) \in AnyValue /\ effective("paused", m.value) = m.value
  BY <1>3, EffectiveIsAny DEF effective
<1>5. /\ stored \in [Setting -> AnyValue] /\ live \in [Setting -> AnyValue]
      /\ \A f \in Setting : stored[f] \in Values(f)
  BY DEF GrainInv, GrainTypeOK
<1> HIDE DEF m
<1>6. /\ live' = [live EXCEPT ![m.setting] = effective(m.setting, m.value)]
      /\ stored' = IF m.setting = "paused" THEN [stored EXCEPT !["paused"] = m.value] ELSE stored
  BY <1>1, <1>4 DEF setPaused, applyLimitChange
<1>7. /\ live' \in [Setting -> AnyValue]
      /\ live'[m.setting] = effective(m.setting, m.value)
      /\ \A f \in Setting : f # m.setting => live'[f] = live[f]
  BY <1>3, <1>4, <1>5, <1>6
<1>8. /\ stored' \in [Setting -> AnyValue]
      /\ \A f \in Setting : stored'[f] = IF f = "paused" /\ m.setting = "paused" THEN m.value ELSE stored[f]
      /\ \A f \in Setting : stored'[f] \in Values(f)
  <2>1. CASE m.setting = "paused"
    BY <1>2, <1>3, <1>5, <1>6, <2>1
  <2>2. CASE m.setting # "paused"
    BY <1>5, <1>6, <2>2
  <2> QED
    BY <2>1, <2>2
<1>9. GrainTypeOK'
  <2>1. \A d \in Call : calls'[d].at \in {"persist", "tell", "wait"} =>
            calls'[d].value \in AnyValue /\ calls'[d].value \in Values(calls'[d].setting)
    BY ZenonT(40), <1>2 DEF GrainInv, GrainTypeOK
  <2> QED
    BY <1>1, <1>2, <1>7, <1>8, <2>1 DEF GrainInv, GrainTypeOK
<1>10. AloneInv'
  BY <1>1, <1>2, <1>8 DEF GrainInv, AloneInv, changing
<1>11. LiveInv'
  <2> SUFFICES ASSUME NEW f \in Setting, activation' \in After(f), f \notin told,
                      f = "paused" \/ f \notin overlapped
               PROVE  live'[f] = effective(f, stored'[f]) \/ Underway(f)'
    BY <1>1 DEF LiveInv, effective, limiterOf
  <2>1. CASE f = m.setting /\ f = "paused"
    BY <1>7, <1>8, <2>1
  <2>2. CASE f = m.setting /\ f # "paused"
    <3>1. stored[f] = m.value
      BY <1>2, <2>2 DEF GrainInv, AloneInv
    <3> QED
      BY <1>7, <1>8, <2>2, <3>1
  <2>3. CASE f # m.setting
    <3>1. live[f] = effective(f, stored[f]) \/ Underway(f)
      BY <1>1 DEF GrainInv, LiveInv
    <3>2. stored'[f] = stored[f] /\ live'[f] = live[f]
      BY <1>7, <1>8, <2>3
    <3> QED
      BY <1>2, <2>3, <3>1, <3>2
  <2> QED
    BY <2>1, <2>2, <2>3
<1> QED
  BY <1>2, <1>9, <1>10, <1>11 DEF GrainInv

LEMMA GrainPauseFails ==
  ASSUME Absent \notin Call, MaxFaults \in Nat, GrainInv, setPausedFails
  PROVE  GrainInv'
<1> DEFINE m == Head(inbox)
<1>1. /\ UNCHANGED <<stored, live, activation, overlapped>>
      /\ activation = "up" /\ inbox # <<>> /\ inbox' = Tail(inbox)
      /\ faults < MaxFaults /\ faults' = faults + 1
      /\ m.setting = "paused" /\ reply(m, "Internal")
      /\ told' = told \cup {"paused"}
  BY DEF setPausedFails
<1>2. /\ inbox' \in Seq(Message) /\ \A i \in DOMAIN inbox' : inbox'[i].value \in Values(inbox'[i].setting)
      /\ calls' \in [Call -> [setting : Setting, value : AnyValue \cup {Invalid}, at : Place]]
      /\ \A c \in Call : /\ calls'[c].setting = calls[c].setting /\ calls'[c].value = calls[c].value
                         /\ calls'[c].at = IF c = m.call THEN "Internal" ELSE calls[c].at
      /\ MailInv'
      /\ \A f : Underway(f) => f = m.setting \/ Underway(f)'
  BY <1>1, GrainHandled
<1> HIDE DEF m
<1>3. GrainTypeOK'
  <2>1. \A d \in Call : calls'[d].at \in {"persist", "tell", "wait"} =>
            calls'[d].value \in AnyValue /\ calls'[d].value \in Values(calls'[d].setting)
    BY ZenonT(40), <1>2 DEF GrainInv, GrainTypeOK
  <2>2. faults' \in 0..MaxFaults /\ told' \subseteq Setting
    BY <1>1 DEF GrainInv, GrainTypeOK, Setting
  <2> QED
    BY <1>1, <1>2, <2>1, <2>2 DEF GrainInv, GrainTypeOK
<1>4. AloneInv'
  BY <1>1, <1>2 DEF GrainInv, AloneInv, changing
<1>5. LiveInv'
  <2> SUFFICES ASSUME NEW f \in Setting, activation \in After(f), f \notin told', f \notin overlapped
               PROVE  live[f] = effective(f, stored[f]) \/ Underway(f)'
    BY <1>1 DEF LiveInv, effective, limiterOf
  <2>1. live[f] = effective(f, stored[f]) \/ Underway(f)
    BY <1>1 DEF GrainInv, LiveInv
  <2> QED
    BY <1>1, <1>2, <2>1
<1> QED
  BY <1>2, <1>3, <1>4, <1>5 DEF GrainInv

LEMMA GrainPassivates ==
  ASSUME GrainInv, OnDeactivate
  PROVE  GrainInv'
<1>1. /\ UNCHANGED <<stored, live, inbox, calls, faults, told, overlapped>>
      /\ inbox = <<>> /\ activation' = "down"
  BY DEF OnDeactivate
<1>2. GrainTypeOK'
  BY <1>1 DEF GrainInv, GrainTypeOK
<1>3. MailInv'
  BY <1>1 DEF MailInv
<1>4. AloneInv'
  BY <1>1 DEF GrainInv, AloneInv, changing
<1>5. LiveInv'
  BY <1>1 DEF LiveInv, After, Setting
<1> QED
  BY <1>2, <1>3, <1>4, <1>5 DEF GrainInv

LEMMA GrainInit ==
  ASSUME Requests, Init
  PROVE  GrainInv
<1>1. /\ stored = [paused |-> FALSE, rateLimit |-> Absent, maxActive |-> Absent] /\ live = stored
      /\ activation = "down" /\ inbox = <<>> /\ calls = [c \in Call |-> Idle]
      /\ faults = 0 /\ told = {} /\ overlapped = {} /\ MaxFaults \in Nat
  BY DEF Init, Requests
<1>2. stored \in [Setting -> AnyValue] /\ \A f \in Setting : stored[f] \in Values(f)
  <2>1. stored = [f \in Setting |-> IF f = "paused" THEN FALSE ELSE Absent]
    <3>1. DOMAIN stored = {"paused", "rateLimit", "maxActive"}
      BY <1>1
    <3>2. stored["paused"] = FALSE
      BY <1>1
    <3>3. stored["rateLimit"] = Absent
      BY <1>1
    <3>4. stored["maxActive"] = Absent
      BY <1>1
    <3>5. stored = [f \in DOMAIN stored |-> stored[f]]
      BY <1>1
    <3> QED
      BY ZenonT(40), <3>1, <3>2, <3>3, <3>4, <3>5 DEF Setting
  <2>2. \A f \in Setting : (IF f = "paused" THEN FALSE ELSE Absent) \in Values(f)
    BY ZenonT(40) DEF Setting, Values
  <2> QED
    BY ZenonT(40), <2>1, <2>2, ValuesAreAny
<1>3. /\ calls \in [Call -> [setting : Setting, value : AnyValue \cup {Invalid}, at : Place]]
      /\ \A c \in Call : calls[c].at = "idle"
  BY <1>1 DEF Idle, Setting, AnyValue, Place
<1>4. GrainTypeOK
  <2>1. inbox \in Seq(Message) /\ DOMAIN inbox = {} /\ faults \in 0..MaxFaults
    BY <1>1
  <2> QED
    BY ZenonT(40), <1>1, <1>2, <1>3, <2>1 DEF GrainTypeOK
<1>5. MailInv
  BY <1>1 DEF MailInv
<1>6. AloneInv
  BY <1>3 DEF AloneInv, changing
<1>7. LiveInv
  BY <1>1 DEF LiveInv, After, Setting
<1> QED
  BY <1>4, <1>5, <1>6, <1>7 DEF GrainInv

LEMMA GrainStep ==
  ASSUME Requests, GrainInv, [Next]_adminVars
  PROVE  GrainInv'
<1>0. Absent \notin Call /\ MaxFaults \in Nat
  BY DEF Requests
<1>1. ASSUME NEW c \in Call,
             \/ PauseQueue(c) \/ ResumeQueue(c)
             \/ DeleteQueueRateLimit(c) \/ DeleteQueueConcurrencyLimit(c)
             \/ \E limit \in RateLimit \cup {Invalid} : SetQueueRateLimit(c, limit)
             \/ \E n \in MaxActive \cup {Invalid} : SetQueueConcurrencyLimit(c, n)
      PROVE  GrainInv'
  <2>1. \E f \in Setting : \E v \in Values(f) \cup {Invalid} : request(c, f, v)
    <3>1. /\ {"paused", "rateLimit", "maxActive"} \subseteq Setting
          /\ Values("paused") = BOOLEAN /\ Values("rateLimit") = RateLimit \cup {Absent}
          /\ Values("maxActive") = MaxActive \cup {Absent}
      BY DEF Setting, Values
    <3> QED
      BY ZenonT(40), <1>1, <3>1 DEF PauseQueue, ResumeQueue, DeleteQueueRateLimit,
         DeleteQueueConcurrencyLimit, SetQueueRateLimit, SetQueueConcurrencyLimit
  <2> QED
    BY <2>1, GrainRequest
<1>2. ASSUME NEW c \in Call,
             persist(c) \/ persistFails(c) \/ tellQueue(c) \/ tellFails(c)
      PROVE  GrainInv'
  BY <1>0, <1>2, GrainPersist, GrainPersistFails, GrainTell, GrainTellFails
<1>3. CASE OnActivate \/ grainLost
  BY <1>0, <1>3, GrainActivate, GrainLost
<1>4. CASE OnReceive \/ setPausedFails \/ OnDeactivate
  BY <1>0, <1>4, GrainReceive, GrainPauseFails, GrainPassivates
<1>5. CASE UNCHANGED adminVars
  <2>1. UNCHANGED <<stored, live, activation, inbox, calls, faults, told, overlapped>>
    BY <1>5 DEF adminVars
  <2>2. GrainTypeOK'
    BY <2>1 DEF GrainInv, GrainTypeOK
  <2>3. MailInv' /\ AloneInv'
    BY <2>1 DEF GrainInv, MailInv, AloneInv, changing
  <2>4. LiveInv'
    BY <2>1 DEF GrainInv, LiveInv, Underway
  <2> QED
    BY <2>2, <2>3, <2>4 DEF GrainInv
<1> QED
  BY <1>1, <1>2, <1>3, <1>4, <1>5 DEF Next

\* The settings of a queue, for any requests in progress, any limits and any
\* number of failures: whenever nothing is under way for a setting, the live
\* queue grain works under what is stored, however handlers, activations and
\* failing calls interleave, unless a caller was told that a change did not
\* take effect or, for the limits, two requests changed it at the same time.
THEOREM SettingsAlwaysAgree == ASSUME Requests PROVE Spec => []SettingsAgree
<1>1. Init => GrainInv
  BY GrainInit
<1>2. GrainInv /\ [Next]_adminVars => GrainInv'
  BY GrainStep
<1>3. GrainInv => SettingsAgree
  <2> SUFFICES ASSUME GrainInv PROVE SettingsAgree
    OBVIOUS
  <2>1. AdminTypeOK
    BY DEF GrainInv, GrainTypeOK, AdminTypeOK, Setting
  <2>2. \A f \in Setting :
           quiet(f) /\ f \notin told /\ (f = "paused" \/ f \notin overlapped) =>
               live[f] = effective(f, stored[f])
    <3>1. \A f \in Setting : "up" \in After(f)
      BY DEF After, Setting
    <3>2. \A f : quiet(f) => activation = "up" /\ ~Underway(f)
      BY DEF quiet, changing, Underway
    <3> QED
      BY <3>1, <3>2 DEF GrainInv, LiveInv
  <2>3. PauseAgrees
    BY <2>2 DEF PauseAgrees, effective, Setting
  <2>4. LimitsAgree
    BY <2>2 DEF LimitsAgree, Setting
  <2> QED
    BY <2>1, <2>3, <2>4 DEF SettingsAgree
<1> QED
  BY <1>1, <1>2, <1>3, PTL DEF Spec

-----------------------------------------------------------------------------
(* Throttle *)

CONSTANTS Limit, Default, LeaseMax, MaxTicks, MaxChanges
VARIABLES limiter, cycle, spent, allowed, ticks, changes

INSTANCE Throttle

Bucket == [rate : Int, burst : Int, tokens : Int]

\* The bucket holds what it has not spent.  A cycle in flight leased no more
\* than its bucket still holds; one from before the bucket was built finds it
\* full, since no cycle has spent from it yet.
RateInv ==
    /\ spent \in Int /\ allowed \in Int
    /\ limiter \subseteq Bucket /\ cycle \subseteq [limit : Int, metered : BOOLEAN]
    /\ \A l, k \in limiter : l = k
    /\ \A c, d \in cycle : c = d
    /\ \A l \in limiter :
         /\ l.rate > 0 /\ l.burst >= 1 /\ l.tokens \in 0..l.burst
         /\ spent + l.tokens <= allowed
         /\ \A c \in cycle : IF c.metered THEN c.limit <= l.tokens ELSE l.tokens = l.burst

LEMMA TheLimiter ==
  ASSUME NEW S, \A l, k \in S : l = k, NEW l \in S
  PROVE  (CHOOSE k \in S : TRUE) = l
OBVIOUS

LEMMA RateRebuilt ==
  ASSUME RateInv, NEW l \in [rate : Int, burst : Int], rebuilt(l)
  PROVE  RateInv'
<1>1. /\ cycle' \subseteq [limit : Int, metered : BOOLEAN] /\ \A c, d \in cycle' : c = d
      /\ \A c \in cycle' : ~c.metered
  BY ZenonT(40) DEF rebuilt, RateInv
<1>2. CASE l.rate <= 0 \/ l.burst < 1
  <2>1. limiter' = {} /\ spent' = 0 /\ allowed' = 0
    BY <1>2 DEF rebuilt, buildLimiter
  <2> QED
    BY <1>1, <2>1 DEF RateInv
<1>3. CASE ~(l.rate <= 0 \/ l.burst < 1)
  <2> DEFINE b == [rate |-> l.rate, burst |-> l.burst, tokens |-> l.burst]
  <2>1. limiter' = {b} /\ spent' = 0 /\ allowed' = l.burst
    BY ZenonT(40), <1>3 DEF rebuilt, buildLimiter
  <2>2. b \in Bucket /\ b.rate > 0 /\ b.burst >= 1 /\ b.tokens = b.burst /\ b.burst = l.burst
    BY <1>3 DEF Bucket
  <2> HIDE DEF b
  <2> QED
    BY <1>1, <2>1, <2>2 DEF RateInv, Bucket
<1> QED
  BY <1>2, <1>3

LEMMA RateRefill ==
  ASSUME RateInv, refill
  PROVE  RateInv'
<1>1. CASE limiter = {}
  BY <1>1 DEF refill, RateInv
<1>2. CASE limiter # {}
  <2>1. PICK l \in limiter : TRUE
    BY <1>2
  <2>2. limiter = {l} /\ l \in Bucket /\ (CHOOSE k \in limiter : TRUE) = l
    BY <2>1, TheLimiter DEF RateInv
  <2> DEFINE n == smaller(l.tokens + l.rate, l.burst)
             b == [l EXCEPT !.tokens = n]
  <2>3. limiter' = {b} /\ allowed' = allowed + l.rate
    BY <1>2, <2>2 DEF refill
  <2>4. /\ n \in 0..l.burst /\ n <= l.tokens + l.rate
        /\ l.tokens = l.burst => n = l.burst
        /\ l.tokens <= n
    BY <2>2 DEF RateInv, smaller, Bucket
  <2>5. b \in Bucket /\ b.rate = l.rate /\ b.burst = l.burst /\ b.tokens = n
    BY <2>2, <2>4 DEF Bucket
  <2> HIDE DEF n, b
  <2>6. spent' = spent /\ cycle' = cycle
    BY DEF refill
  <2> QED
    BY <2>2, <2>3, <2>4, <2>5, <2>6 DEF RateInv, Bucket
<1> QED
  BY <1>1, <1>2

LEMMA RateLease ==
  ASSUME Numbers, RateInv, NEW credits \in 1..LeaseMax + 1, maybeLease(credits)
  PROVE  RateInv'
<1> DEFINE most == smaller(credits, LeaseMax)
           limit == IF limiter = {} THEN most
                    ELSE smaller(most, (CHOOSE l \in limiter : TRUE).tokens)
           c == [limit |-> limit, metered |-> TRUE]
<1>1. cycle' = {c} /\ UNCHANGED <<limiter, spent, allowed>>
  BY DEF maybeLease
<1>2. most \in Int
  BY DEF smaller, Numbers
<1> HIDE DEF most
<1>3. limit \in Int /\ \A l \in limiter : limit <= l.tokens
  BY <1>2, TheLimiter DEF smaller, RateInv, Bucket
<1> HIDE DEF limit
<1> QED
  BY <1>1, <1>3 DEF RateInv, Bucket

LEMMA RateFinish ==
  ASSUME Numbers, RateInv, NEW n \in 0..LeaseMax, finishLeaseCycle(n)
  PROVE  RateInv'
<1>1. PICK c \in cycle :
        /\ n <= c.limit
        /\ cycle' = {}
        /\ limiter' = {ReserveN(l, smaller(n, l.burst)) : l \in limiter}
        /\ spent' = IF limiter = {} THEN 0
                    ELSE spent + (IF c.metered THEN n
                                  ELSE smaller(n, (CHOOSE l \in limiter : TRUE).burst))
        /\ allowed' = allowed
  BY DEF finishLeaseCycle
<1>2. CASE limiter = {}
  BY <1>1, <1>2 DEF RateInv
<1>3. CASE limiter # {}
  <2>1. PICK l \in limiter : TRUE
    BY <1>3
  <2>2. limiter = {l} /\ l \in Bucket /\ (CHOOSE k \in limiter : TRUE) = l
    BY <2>1, TheLimiter DEF RateInv
  <2> DEFINE m == smaller(n, l.burst)
             b == [l EXCEPT !.tokens = @ - m]
  <2>3. /\ n \in Int /\ m \in Int /\ m <= l.burst /\ m >= 0 /\ m <= l.tokens
        /\ c.metered => m = n
    BY <1>1, <2>2 DEF RateInv, Bucket, smaller, Numbers
  <2>4. limiter' = {b} /\ spent' = spent + m
    <3>1. ReserveN(l, m) = b
      BY <2>2, <2>3 DEF ReserveN, Bucket
    <3>2. limiter' = {ReserveN(l, m)}
      BY <1>1, <2>2
    <3>3. spent' = spent + m
      BY <1>1, <1>3, <2>2, <2>3
    <3> QED
      BY <3>1, <3>2, <3>3
  <2>5. b \in Bucket /\ b.rate = l.rate /\ b.burst = l.burst /\ b.tokens = l.tokens - m
    BY <2>2, <2>3 DEF Bucket
  <2>6. /\ l.rate > 0 /\ l.burst >= 1 /\ l.tokens \in 0..l.burst
        /\ spent \in Int /\ allowed \in Int /\ spent + l.tokens <= allowed
    BY <2>2 DEF RateInv
  <2> HIDE DEF m, b
  <2>7. b.tokens \in 0..b.burst /\ spent' \in Int /\ spent' + b.tokens <= allowed
    BY <2>2, <2>3, <2>4, <2>5, <2>6 DEF Bucket
  <2> QED
    BY ZenonT(40), <1>1, <2>4, <2>5, <2>6, <2>7 DEF RateInv
<1> QED
  BY <1>2, <1>3

LEMMA RateStep ==
  ASSUME Numbers, RateInv, [RateNext]_rateVars
  PROVE  RateInv'
<1>1. CASE \E l \in Limit : applyRateLimitChange(l) \/ loadRateLimit({l})
  <2>1. PICK l \in Limit : applyRateLimitChange(l) \/ loadRateLimit({l})
    BY <1>1
  <2>2. l \in [rate : Int, burst : Int] /\ Default \in [rate : Int, burst : Int]
    BY <2>1 DEF Numbers
  <2>3. rebuilt(l) \/ rebuilt(Default)
    BY <2>1 DEF applyRateLimitChange, loadRateLimit
  <2> QED
    BY <2>2, <2>3, RateRebuilt
<1>2. CASE loadRateLimit({})
  <2>1. rebuilt(Default) /\ Default \in [rate : Int, burst : Int]
    BY <1>2 DEF loadRateLimit, Numbers
  <2> QED
    BY <2>1, RateRebuilt
<1>3. CASE refill
  BY <1>3, RateRefill
<1>4. CASE \E credits \in 1..LeaseMax + 1 : maybeLease(credits)
  BY <1>4, RateLease
<1>5. CASE \E n \in 0..LeaseMax : finishLeaseCycle(n)
  BY <1>5, RateFinish
<1>6. CASE UNCHANGED rateVars
  BY <1>6 DEF rateVars, RateInv
<1> QED
  BY <1>1, <1>2, <1>3, <1>4, <1>5, <1>6 DEF RateNext

\* The dispatch rate of a queue, for any limits, any default and any lease
\* size: however changes of the limit and activations of the grain fall
\* between the start of a lease cycle and its end, a bucket admits no more
\* than its burst and its refills, and finishLeaseCycle's reservation never
\* drives it below zero.
THEOREM ThrottleAlwaysHolds == ASSUME Numbers PROVE RateSpec => []ThrottleHolds
<1>1. RateInit => RateInv
  <2> SUFFICES ASSUME RateInit PROVE RateInv
    OBVIOUS
  <2>1. Default \in [rate : Int, burst : Int]
    BY DEF Numbers
  <2> QED
    BY <2>1 DEF RateInit, buildLimiter, RateInv, Bucket
<1>2. RateInv /\ [RateNext]_rateVars => RateInv'
  BY RateStep
<1>3. RateInv => ThrottleHolds
  BY DEF RateInv, Bucket, ThrottleHolds, ReservationNeverWaits, RateHolds
<1> QED
  BY <1>1, <1>2, <1>3, PTL DEF RateSpec

-----------------------------------------------------------------------------
(* Scheduler *)

CONSTANTS Host, EntryID, Period, UniqueTTL, MaxTime, MaxMoves
VARIABLES now, cronEntries, fired, host, pass, answer, moves

INSTANCE Scheduler

CronEntry == [spec : Period, paused : BOOLEAN, nextRunAt : Nat]
CronCopy == [id : EntryID, spec : Period, nextRunAt : Nat]
CronTask == [entry : EntryID, slot : Nat, uniqueKey : EntryID \X Nat,
             uniqueExpiresAt : Nat, open : BOOLEAN]
CronPass == [at : {"idle", "entry", "advance"}, now : Nat, due : SUBSET CronCopy]

\* Stored entries are valid.
EntriesInv ==
    /\ cronEntries \in [EntryID -> CronEntry \cup {Absent}]
    /\ answer \in {"none", "OK", "NotFound", "InvalidArgument"}

\* A pass holds copies of entries that were due when it began.
PassInv ==
    /\ now \in 1..MaxTime /\ host \in Host
    /\ pass \in [Host -> CronPass]
    /\ \A h \in Host :
          /\ pass[h].at # "idle" <=> pass[h].due # {}
          /\ pass[h].now <= now
          /\ \A e \in pass[h].due : e.nextRunAt <= pass[h].now

\* The key of a task is its entry and slot.
KeyInv ==
    /\ fired \in Seq(CronTask)
    /\ \A i \in DOMAIN fired : fired[i].uniqueKey = <<fired[i].entry, fired[i].slot>>

FirstOf(D) == CHOOSE e \in D : \A other \in D : e.id <= other.id

\* A slot has its task among those fired.
HasTask(tasks, id, slot) == \E i \in DOMAIN tasks : tasks[i].entry = id /\ tasks[i].slot = slot

\* A pass that is to move a cursor has fired the slot.
FiredInv ==
    \A h \in Host : pass[h].at = "advance" =>
        LET e == FirstOf(pass[h].due) IN e.nextRunAt # 0 /\ HasTask(fired, e.id, e.nextRunAt)

CronInv == EntriesInv /\ PassInv /\ KeyInv /\ FiredInv /\ OneLiveTaskPerSlot

LEMMA LessThanWF == IsWellFoundedOn({p \in Nat \X Nat : p[1] < p[2]}, Nat)
  BY NatLessThanWellFounded, Zenon DEF OpToRel

LEMMA LeastIn ==
  ASSUME NEW S, S \subseteq Nat, S # {}
  PROVE  \E m \in S : \A n \in S : m <= n
<1> DEFINE P == {p \in Nat \X Nat : p[1] < p[2]}
<1>1. PICK m \in S : \A n \in S : ~(<<n, m>> \in P)
  <2>1. IsWellFoundedOn(P, Nat)
    BY LessThanWF
  <2> HIDE DEF P
  <2> QED
    BY Zenon, <2>1, WFMin
<1>2. ASSUME NEW n \in S PROVE m <= n
  <2>1. m \in Nat /\ n \in Nat
    OBVIOUS
  <2>2. n < m => <<n, m>> \in P
    BY <2>1
  <2>3. ~(n < m)
    BY Zenon, <1>1, <2>2
  <2> QED
    BY <2>1, <2>3
<1> QED
  BY <1>2

LEMMA FirstIn ==
  ASSUME Timetable, NEW D, D \subseteq CronCopy, D # {}
  PROVE  FirstOf(D) \in D
<1> DEFINE S == {e.id : e \in D}
<1>1. S \subseteq Nat /\ S # {}
  BY ZenonT(40) DEF CronCopy, Timetable
<1>2. PICK m \in S : \A n \in S : m <= n
  BY ZenonT(40), <1>1, LeastIn
<1>3. PICK e \in D : e.id = m
  BY <1>2
<1>4. \A other \in D : e.id <= other.id
  BY <1>2, <1>3
<1> QED
  BY <1>4 DEF FirstOf

\* A spec fires next after the instant it is asked about.
LEMMA NextFireLater ==
  ASSUME NEW spec \in Nat \ {0}, NEW after \in Nat
  PROVE  NextFire(spec, after) \in Nat /\ NextFire(spec, after) > after
<1> DEFINE q == after \div spec
           r == after % spec
<1>1. q \in Nat /\ r \in 0..(spec - 1) /\ after = spec * q + r
  OBVIOUS
<1>2. NextFire(spec, after) = (q + 1) * spec
  BY DEF NextFire
<1> HIDE DEF q, r
<1>3. (q + 1) * spec = spec * q + spec /\ spec * q \in Nat
  BY <1>1
<1> QED
  BY <1>1, <1>2, <1>3

\* The pass with its entry dealt with.
LEMMA NextEntry ==
  ASSUME Timetable, PassInv, FiredInv, NEW h \in Host, pass[h].at # "idle",
         pass' = [pass EXCEPT ![h] = nextEntry(h)], UNCHANGED <<now, fired>>, host' = host
  PROVE  PassInv' /\ FiredInv'
<1> DEFINE e == FirstOf(pass[h].due)
           p == nextEntry(h)
<1>1. pass[h] \in CronPass /\ pass[h].due # {} /\ pass[h].due \subseteq CronCopy
  BY DEF PassInv, CronPass
<1>2. e \in pass[h].due /\ entryOf(h) = e
  BY <1>1, FirstIn DEF entryOf, FirstOf
<1>3. /\ p \in CronPass /\ p.at # "advance" /\ (p.at # "idle" <=> p.due # {})
      /\ p.now <= now /\ \A c \in p.due : c.nextRunAt <= p.now
  <2>1. CASE pass[h].due = {e}
    <3>1. p = [at |-> "idle", now |-> 0, due |-> {}]
      BY <1>2, <2>1 DEF nextEntry, IdlePass, Zero
    <3> QED
      BY <3>1 DEF PassInv, CronPass
  <2>2. CASE pass[h].due # {e}
    <3>1. p = [pass[h] EXCEPT !.at = "entry", !.due = pass[h].due \ {e}]
      BY <1>2, <2>2 DEF nextEntry
    <3>2. p \in CronPass /\ p.at = "entry" /\ p.now = pass[h].now /\ p.due = pass[h].due \ {e}
      BY ZenonT(40), <1>1, <3>1 DEF CronPass
    <3>3. p.due # {}
      BY <1>2, <2>2, <3>2
    <3> QED
      BY <3>2, <3>3 DEF PassInv
  <2> QED
    BY <2>1, <2>2
<1> HIDE DEF p
<1>4. pass' = [pass EXCEPT ![h] = p]
  BY DEF p
<1>5. PassInv'
  BY <1>3, <1>4 DEF PassInv
<1>6. FiredInv'
  <2> SUFFICES ASSUME NEW k \in Host, pass'[k].at = "advance"
               PROVE  FirstOf(pass'[k].due).nextRunAt # 0
                      /\ HasTask(fired', FirstOf(pass'[k].due).id, FirstOf(pass'[k].due).nextRunAt)
    BY DEF FiredInv, FirstOf, HasTask
  <2>1. pass'[k] = pass[k]
    BY <1>3, <1>4 DEF PassInv
  <2> QED
    BY <2>1 DEF FiredInv, HasTask
<1> QED
  BY <1>5, <1>6

\* What only ages leaves the passes as they are.
LEMMA SamePasses ==
  ASSUME PassInv, FiredInv, UNCHANGED pass, now' \in 1..MaxTime, now' >= now, host' \in Host,
         \A id, slot : HasTask(fired, id, slot) => HasTask(fired', id, slot)
  PROVE  PassInv' /\ FiredInv'
<1>1. now \in Int /\ \A h \in Host : pass[h].now \in Int
  BY DEF PassInv, CronPass
<1>2. PassInv'
  BY <1>1 DEF PassInv
<1>3. FiredInv'
  BY DEF FiredInv, FirstOf
<1> QED
  BY <1>2, <1>3

\* A compare-and-set of a cursor: the entries stay valid, and only the cursor
\* that held what was expected is moved.
LEMMA CursorMoved ==
  ASSUME EntriesInv, NEW id \in EntryID, NEW expected \in Nat, NEW next \in Nat,
         cronEntries' = UpdateCronNextRun(id, expected, next), UNCHANGED answer
  PROVE  /\ EntriesInv'
         /\ \A k \in EntryID : \/ cronEntries'[k] = cronEntries[k]
                               \/ /\ k = id /\ cronEntries[k].nextRunAt = expected
                                  /\ cronEntries'[k].nextRunAt = next
<1>1. CASE cronEntries[id] = Absent \/ cronEntries[id].nextRunAt # expected
  <2>1. cronEntries' = cronEntries
    BY <1>1 DEF UpdateCronNextRun
  <2> QED
    BY <2>1 DEF EntriesInv
<1>2. CASE cronEntries[id] # Absent /\ cronEntries[id].nextRunAt = expected
  <2> DEFINE new == [cronEntries[id] EXCEPT !.nextRunAt = next]
  <2>1. cronEntries[id] \in CronEntry
    BY <1>2 DEF EntriesInv
  <2>2. new \in CronEntry /\ new.nextRunAt = next
    BY <2>1 DEF CronEntry
  <2>3. cronEntries' = [cronEntries EXCEPT ![id] = new]
    BY <1>2 DEF UpdateCronNextRun
  <2> HIDE DEF new
  <2> QED
    BY <1>2, <2>2, <2>3 DEF EntriesInv
<1> QED
  BY <1>1, <1>2

\* One slot at a time: what a step may do to the entries.
CursorsKept ==
    \A id \in EntryID :
        \/ cronEntries'[id] = cronEntries[id]
        \/ Absent \in {cronEntries[id], cronEntries'[id]}
        \/ cronEntries'[id].nextRunAt \in {0, cronEntries[id].nextRunAt}
        \/ cronEntries[id].nextRunAt = 0
        \/ /\ cronEntries'[id].nextRunAt > cronEntries[id].nextRunAt
           /\ HasTask(fired, id, cronEntries[id].nextRunAt)

LEMMA CronMaterialize ==
  ASSUME Timetable, CronInv, NEW h \in Host, materializeCron(h)
  PROVE  CronInv' /\ CursorsKept
<1> DEFINE D == ListDueCronEntries
           p == [at |-> "entry", now |-> now, due |-> D]
<1>1. /\ pass' = [pass EXCEPT ![h] = p] /\ D # {}
      /\ UNCHANGED <<now, cronEntries, fired, host, answer>>
  BY DEF materializeCron
<1>2. ASSUME NEW c \in D PROVE c \in CronCopy /\ c.nextRunAt <= now
  <2>1. PICK id \in EntryID : /\ isDue(id)
                              /\ c = [id |-> id, spec |-> cronEntries[id].spec,
                                      nextRunAt |-> cronEntries[id].nextRunAt]
    BY <1>2 DEF ListDueCronEntries
  <2>2. cronEntries[id] \in CronEntry /\ cronEntries[id].nextRunAt <= now
    BY <2>1 DEF isDue, CronInv, EntriesInv
  <2> QED
    BY <2>1, <2>2 DEF CronEntry, CronCopy
<1> HIDE DEF D
<1>3. now \in Nat /\ pass \in [Host -> CronPass]
  BY DEF CronInv, PassInv, Timetable
<1>4. p \in CronPass /\ p.at = "entry" /\ p.now = now /\ p.due = D
  BY <1>2, <1>3 DEF CronPass
<1> HIDE DEF p
<1>5. PassInv'
  BY <1>1, <1>2, <1>3, <1>4 DEF CronInv, PassInv
<1>6. FiredInv'
  <2> SUFFICES ASSUME NEW k \in Host, pass'[k].at = "advance"
               PROVE  FirstOf(pass'[k].due).nextRunAt # 0
                      /\ HasTask(fired', FirstOf(pass'[k].due).id, FirstOf(pass'[k].due).nextRunAt)
    BY ZenonT(40) DEF FiredInv, FirstOf, HasTask
  <2>1. pass'[k] = pass[k]
    BY <1>1, <1>3, <1>4
  <2> QED
    BY <1>1, <2>1 DEF CronInv, FiredInv, HasTask
<1>7. EntriesInv' /\ KeyInv'
  BY <1>1 DEF CronInv, EntriesInv, KeyInv
<1>8. OneLiveTaskPerSlot'
  BY <1>1 DEF CronInv, OneLiveTaskPerSlot
<1> QED
  BY <1>1, <1>5, <1>6, <1>7, <1>8 DEF CronInv, CursorsKept

\* A call fails, or an unarmed entry is armed.
LEMMA CronArm ==
  ASSUME Timetable, CronInv, NEW h \in Host, passFails(h) \/ armCron(h)
  PROVE  CronInv' /\ CursorsKept
<1>1. /\ pass[h].at # "idle" /\ pass' = [pass EXCEPT ![h] = nextEntry(h)]
      /\ UNCHANGED <<now, fired, host, answer>>
  BY DEF passFails, armCron
<1>2. PassInv' /\ FiredInv'
  BY ZenonT(40), <1>1, NextEntry DEF CronInv
<1>3. KeyInv' /\ OneLiveTaskPerSlot'
  BY <1>1 DEF CronInv, KeyInv, OneLiveTaskPerSlot
<1>4. EntriesInv' /\ CursorsKept
  <2>1. CASE passFails(h)
    BY <1>1, <2>1 DEF passFails, CronInv, EntriesInv, CursorsKept
  <2>2. CASE armCron(h)
    <3> DEFINE e == entryOf(h)
               next == NextFire(e.spec, pass[h].now)
    <3>1. e \in pass[h].due /\ e \in CronCopy /\ pass[h].now \in Nat
      BY <1>1, FirstIn DEF CronInv, PassInv, CronPass, entryOf, FirstOf
    <3>2. e.id \in EntryID /\ next \in Nat
      BY ZenonT(40), <3>1, NextFireLater DEF CronCopy, Timetable
    <3>3. cronEntries' = UpdateCronNextRun(e.id, 0, next)
      BY <2>2 DEF armCron, Zero
    <3> HIDE DEF e, next
    <3>4. EntriesInv /\ 0 \in Nat /\ UNCHANGED answer
      BY <1>1 DEF CronInv
    <3>5. /\ EntriesInv'
          /\ \A k \in EntryID : \/ cronEntries'[k] = cronEntries[k]
                                \/ /\ k = e.id /\ cronEntries[k].nextRunAt = 0
                                   /\ cronEntries'[k].nextRunAt = next
      BY <3>2, <3>3, <3>4, CursorMoved
    <3> QED
      BY <3>5 DEF CursorsKept
  <2> QED
    BY <2>1, <2>2
<1> QED
  BY <1>2, <1>3, <1>4 DEF CronInv

LEMMA CronAdvance ==
  ASSUME Timetable, CronInv, NEW h \in Host, advance(h)
  PROVE  CronInv' /\ CursorsKept
<1> DEFINE e == entryOf(h)
           next == NextFire(e.spec, pass[h].now)
<1>1. /\ pass[h].at = "advance" /\ pass' = [pass EXCEPT ![h] = nextEntry(h)]
      /\ UNCHANGED <<now, fired, host, answer>>
      /\ cronEntries' = UpdateCronNextRun(e.id, e.nextRunAt, next)
  BY DEF advance
<1>2. PassInv' /\ FiredInv'
  BY ZenonT(40), <1>1, NextEntry DEF CronInv
<1>3. KeyInv' /\ OneLiveTaskPerSlot'
  BY <1>1 DEF CronInv, KeyInv, OneLiveTaskPerSlot
<1>4. e = FirstOf(pass[h].due)
  BY DEF entryOf, FirstOf
<1>5. e \in pass[h].due /\ e \in CronCopy /\ pass[h].now \in Nat /\ e.nextRunAt <= pass[h].now
  BY <1>1, <1>4, FirstIn DEF CronInv, PassInv, CronPass
<1>6. HasTask(fired, e.id, e.nextRunAt)
  BY <1>1, <1>4 DEF CronInv, FiredInv
<1>7. e.id \in EntryID /\ e.nextRunAt \in Nat /\ next \in Nat /\ next > e.nextRunAt
  <2>1. e.spec \in Nat \ {0} /\ e.id \in EntryID /\ e.nextRunAt \in Nat
    BY ZenonT(40), <1>5 DEF CronCopy, Timetable
  <2>2. next \in Nat /\ next > pass[h].now
    BY ZenonT(40), <1>5, <2>1, NextFireLater
  <2> HIDE DEF e, next
  <2> QED
    BY <1>5, <2>1, <2>2
<1> HIDE DEF e, next
<1>8. /\ EntriesInv'
      /\ \A k \in EntryID : \/ cronEntries'[k] = cronEntries[k]
                            \/ /\ k = e.id /\ cronEntries[k].nextRunAt = e.nextRunAt
                               /\ cronEntries'[k].nextRunAt = next
  BY <1>1, <1>7, CursorMoved DEF CronInv
<1>9. CursorsKept
  BY <1>6, <1>7, <1>8 DEF CursorsKept
<1> QED
  BY <1>2, <1>3, <1>8, <1>9 DEF CronInv

LEMMA CronFire ==
  ASSUME Timetable, CronInv, NEW h \in Host, fireCron(h)
  PROVE  CronInv' /\ CursorsKept
<1> DEFINE e == entryOf(h)
           task == MaterializeTask(e, pass[h].now)
<1>1. /\ pass[h].at = "entry" /\ e.nextRunAt # 0
      /\ pass' = [pass EXCEPT ![h].at = "advance"]
      /\ UNCHANGED <<now, cronEntries, host, answer>>
      /\ IF uniqueKeyClaimed(task.uniqueKey) THEN UNCHANGED fired
         ELSE fired' = Append(fired, task)
  BY DEF fireCron, Zero
<1>2. e = FirstOf(pass[h].due)
  BY DEF entryOf, FirstOf
<1>3. pass \in [Host -> CronPass] /\ now \in Nat /\ pass[h].due # {}
  BY <1>1 DEF CronInv, PassInv, Timetable
<1>4. e \in pass[h].due /\ e \in CronCopy
  BY <1>2, <1>3, FirstIn DEF CronPass
<1>5. /\ task \in CronTask /\ task.entry = e.id /\ task.slot = e.nextRunAt
      /\ task.uniqueKey = <<e.id, e.nextRunAt>>
  <2>1. task = [entry |-> e.id, slot |-> e.nextRunAt, uniqueKey |-> <<e.id, e.nextRunAt>>,
                uniqueExpiresAt |-> now + UniqueTTL, open |-> TRUE]
    BY DEF MaterializeTask, UniqueKey
  <2>2. e.id \in EntryID /\ e.nextRunAt \in Nat /\ now + UniqueTTL \in Nat
    BY <1>3, <1>4 DEF CronCopy, Timetable
  <2> HIDE DEF task, e
  <2> QED
    BY <2>1, <2>2 DEF CronTask
<1> HIDE DEF task, e
<1>6. /\ KeyInv' /\ OneLiveTaskPerSlot' /\ HasTask(fired', e.id, e.nextRunAt)
      /\ \A id, slot : HasTask(fired, id, slot) => HasTask(fired', id, slot)
  <2>1. CASE uniqueKeyClaimed(task.uniqueKey)
    <3>1. UNCHANGED fired
      BY <1>1, <2>1
    <3>2. PICK i \in DOMAIN fired : fired[i].uniqueKey = task.uniqueKey
      BY <2>1 DEF uniqueKeyClaimed
    <3>3. <<fired[i].entry, fired[i].slot>> = <<e.id, e.nextRunAt>>
      BY <1>5, <3>2 DEF CronInv, KeyInv
    <3>4. fired[i].entry = e.id /\ fired[i].slot = e.nextRunAt
      BY <3>3
    <3>5. HasTask(fired, e.id, e.nextRunAt)
      BY <3>4 DEF HasTask
    <3>6. \A id, slot : HasTask(fired, id, slot) => HasTask(fired', id, slot)
      BY <3>1 DEF HasTask
    <3>7. KeyInv' /\ OneLiveTaskPerSlot'
      BY <1>1, <3>1 DEF CronInv, KeyInv, OneLiveTaskPerSlot
    <3> QED
      BY <3>5, <3>6, <3>7
  <2>2. CASE ~uniqueKeyClaimed(task.uniqueKey)
    <3>1. fired' = Append(fired, task) /\ fired \in Seq(CronTask)
      BY <1>1, <2>2 DEF CronInv, KeyInv
    <3> DEFINE last == Len(fired) + 1
    <3>2. /\ fired' \in Seq(CronTask) /\ last \in DOMAIN fired' /\ fired'[last] = task
          /\ DOMAIN fired \subseteq DOMAIN fired' /\ \A i \in DOMAIN fired : fired'[i] = fired[i]
          /\ \A i \in DOMAIN fired' : i = last \/ i \in DOMAIN fired
      BY <1>5, <3>1
    <3> HIDE DEF last
    <3>3. KeyInv'
      BY <1>5, <3>2 DEF CronInv, KeyInv
    <3>4. HasTask(fired', e.id, e.nextRunAt) /\ \A id, slot : HasTask(fired, id, slot) => HasTask(fired', id, slot)
      BY <1>5, <3>2 DEF HasTask
    <3>5. ASSUME NEW i \in DOMAIN fired, fired[i].entry = e.id, fired[i].slot = e.nextRunAt
          PROVE  ~(fired[i].open /\ fired[i].uniqueExpiresAt > now)
      <4>1. fired[i].uniqueKey = task.uniqueKey
        BY <1>5, <3>5 DEF CronInv, KeyInv
      <4> QED
        BY <2>2, <4>1 DEF uniqueKeyClaimed
    <3>6. OneLiveTaskPerSlot'
      <4> SUFFICES ASSUME NEW i \in DOMAIN fired', NEW j \in DOMAIN fired',
                          fired'[i].entry = fired'[j].entry, fired'[i].slot = fired'[j].slot,
                          fired'[i].open, fired'[j].open,
                          fired'[i].uniqueExpiresAt > now, fired'[j].uniqueExpiresAt > now
                   PROVE  i = j
        BY <1>1 DEF OneLiveTaskPerSlot
      <4>1. CASE i \in DOMAIN fired /\ j \in DOMAIN fired
        BY <3>2, <4>1 DEF CronInv, OneLiveTaskPerSlot
      <4>2. CASE i = last /\ j # last
        BY <1>5, <3>2, <3>5, <4>2
      <4>3. CASE j = last /\ i # last
        BY <1>5, <3>2, <3>5, <4>3
      <4> QED
        BY <3>2, <4>1, <4>2, <4>3
    <3> QED
      BY <3>3, <3>4, <3>6
  <2> QED
    BY <2>1, <2>2
<1>7. /\ \A k \in Host : pass'[k].due = pass[k].due /\ pass'[k].now = pass[k].now
      /\ \A k \in Host \ {h} : pass'[k] = pass[k]
      /\ pass'[h].at = "advance" /\ pass' \in [Host -> CronPass]
  BY <1>1, <1>3 DEF CronPass
<1>8. PassInv'
  <2>1. \A k \in Host : pass'[k].at # "idle" <=> pass'[k].due # {}
    BY <1>1, <1>3, <1>7 DEF CronInv, PassInv
  <2> QED
    BY <1>1, <1>7, <2>1 DEF CronInv, PassInv
<1>9. FiredInv'
  <2> SUFFICES ASSUME NEW k \in Host, pass'[k].at = "advance"
               PROVE  FirstOf(pass'[k].due).nextRunAt # 0
                      /\ HasTask(fired', FirstOf(pass'[k].due).id, FirstOf(pass'[k].due).nextRunAt)
    BY DEF FiredInv, FirstOf, HasTask
  <2>1. FirstOf(pass'[k].due) = FirstOf(pass[k].due)
    BY <1>7
  <2>2. CASE k = h
    BY <1>1, <1>2, <1>6, <2>1, <2>2
  <2>3. CASE k # h
    BY ZenonT(40), <1>6, <1>7, <2>1, <2>3 DEF CronInv, FiredInv
  <2> QED
    BY <2>2, <2>3
<1> QED
  BY <1>1, <1>6, <1>8, <1>9 DEF CronInv, EntriesInv, CursorsKept

\* The singleton moves, or a node dies with its pass.
LEMMA CronMoves ==
  ASSUME Timetable, CronInv, NEW h \in Host, relocate(h) \/ nodeDies(h)
  PROVE  CronInv' /\ CursorsKept
<1>1. UNCHANGED <<now, cronEntries, fired, answer>> /\ host' \in Host
  BY DEF relocate, nodeDies
<1>2. EntriesInv' /\ KeyInv' /\ OneLiveTaskPerSlot' /\ CursorsKept
  BY ZenonT(40), <1>1 DEF CronInv, EntriesInv, KeyInv, OneLiveTaskPerSlot, CursorsKept
<1>3. CASE relocate(h)
  <2>1. UNCHANGED pass /\ now' >= now /\ now' \in 1..MaxTime
    BY <1>1, <1>3 DEF relocate, CronInv, PassInv
  <2>2. \A id, slot : HasTask(fired, id, slot) => HasTask(fired', id, slot)
    BY <1>1 DEF HasTask
  <2> QED
    BY <1>1, <1>2, <2>1, <2>2, SamePasses DEF CronInv
<1>4. CASE nodeDies(h)
  <2> DEFINE p == [at |-> "idle", now |-> 0, due |-> {}]
  <2>1. pass' = [pass EXCEPT ![h] = p]
    BY ZenonT(40), <1>4 DEF nodeDies, IdlePass, Zero
  <2>2. p \in CronPass /\ p.at = "idle" /\ p.now = 0 /\ p.due = {}
    BY DEF CronPass
  <2> HIDE DEF p
  <2>3. PassInv'
    <3>1. /\ pass \in [Host -> CronPass] /\ now \in 1..MaxTime
          /\ \A k \in Host : /\ pass[k].at # "idle" <=> pass[k].due # {}
                             /\ pass[k].now <= now
                             /\ \A e \in pass[k].due : e.nextRunAt <= pass[k].now
      BY ZenonT(40) DEF CronInv, PassInv
    <3>2. pass' \in [Host -> CronPass] /\ \A k \in Host : pass'[k] = pass[k] \/ pass'[k] = p
      BY <2>1, <2>2, <3>1
    <3>3. 0 <= now
      BY <3>1, SMT
    <3>4. ASSUME NEW k \in Host
          PROVE  /\ pass'[k].at # "idle" <=> pass'[k].due # {}
                 /\ pass'[k].now <= now
                 /\ \A e \in pass'[k].due : e.nextRunAt <= pass'[k].now
      BY ZenonT(40), <2>2, <3>1, <3>2, <3>3
    <3> QED
      BY ZenonT(40), <1>1, <3>1, <3>2, <3>4 DEF PassInv
  <2>4. FiredInv'
    <3> SUFFICES ASSUME NEW k \in Host, pass'[k].at = "advance"
                 PROVE  FirstOf(pass'[k].due).nextRunAt # 0
                        /\ HasTask(fired', FirstOf(pass'[k].due).id, FirstOf(pass'[k].due).nextRunAt)
      BY ZenonT(40) DEF FiredInv, FirstOf, HasTask
    <3>1. pass'[k] = pass[k]
      BY <2>1, <2>2 DEF CronInv, PassInv
    <3> QED
      BY <1>1, <3>1 DEF CronInv, FiredInv, HasTask
  <2> QED
    BY <1>2, <2>3, <2>4 DEF CronInv
<1> QED
  BY <1>3, <1>4

\* Time passes, and workers complete tasks.
LEMMA CronAges ==
  ASSUME Timetable, CronInv, passes \/ \E i \in DOMAIN fired : completes(i)
  PROVE  CronInv' /\ CursorsKept
<1>1. UNCHANGED <<cronEntries, answer, pass, host>>
  BY DEF passes, completes
<1>2. EntriesInv' /\ CursorsKept
  BY <1>1 DEF CronInv, EntriesInv, CursorsKept
<1>3. now \in 1..MaxTime /\ host' \in Host
  BY <1>1 DEF CronInv, PassInv
<1>4. CASE passes
  <2>1. now' \in 1..MaxTime /\ now' = now + 1 /\ UNCHANGED fired
    BY <1>3, <1>4 DEF passes, Timetable
  <2>2. KeyInv' /\ \A id, slot : HasTask(fired, id, slot) => HasTask(fired', id, slot)
    BY <2>1 DEF CronInv, KeyInv, HasTask
  <2>3. OneLiveTaskPerSlot'
    <3>1. \A i \in DOMAIN fired : fired[i].uniqueExpiresAt > now' => fired[i].uniqueExpiresAt > now
      <4>1. \A i \in DOMAIN fired : fired[i] \in CronTask
        BY DEF CronInv, KeyInv
      <4>2. \A i \in DOMAIN fired : fired[i].uniqueExpiresAt \in Nat
        BY <4>1 DEF CronTask
      <4> QED
        BY <1>3, <2>1, <4>2
    <3> QED
      BY <2>1, <3>1 DEF CronInv, OneLiveTaskPerSlot
  <2>4. PassInv' /\ FiredInv'
    <3>1. now' >= now
      BY <1>3, <2>1
    <3> QED
      BY <1>1, <1>3, <2>1, <2>2, <3>1, SamePasses DEF CronInv
  <2> QED
    BY <1>2, <2>2, <2>3, <2>4 DEF CronInv
<1>5. CASE \E i \in DOMAIN fired : completes(i)
  <2>1. PICK n \in DOMAIN fired : completes(n)
    BY <1>5
  <2> DEFINE done == [fired[n] EXCEPT !.open = FALSE]
  <2>2. /\ fired' = [fired EXCEPT ![n] = done] /\ UNCHANGED now
        /\ fired \in Seq(CronTask) /\ fired[n] \in CronTask
    BY <2>1 DEF completes, CronInv, KeyInv
  <2>3. /\ done \in CronTask /\ done.open = FALSE
        /\ done.entry = fired[n].entry /\ done.slot = fired[n].slot /\ done.uniqueKey = fired[n].uniqueKey
    BY ZenonT(40), <2>2 DEF CronTask
  <2> HIDE DEF done
  <2>4. /\ fired' \in Seq(CronTask) /\ DOMAIN fired' = DOMAIN fired /\ fired'[n] = done
        /\ \A i \in DOMAIN fired : i # n => fired'[i] = fired[i]
    BY <2>2, <2>3
  <2>5. \A i \in DOMAIN fired : /\ fired'[i].entry = fired[i].entry /\ fired'[i].slot = fired[i].slot
                                /\ fired'[i].uniqueKey = fired[i].uniqueKey
    BY <2>3, <2>4
  <2>6. KeyInv' /\ \A id, slot : HasTask(fired, id, slot) => HasTask(fired', id, slot)
    BY <2>4, <2>5 DEF CronInv, KeyInv, HasTask
  <2>7. OneLiveTaskPerSlot'
    BY <2>2, <2>3, <2>4 DEF CronInv, OneLiveTaskPerSlot
  <2>8. PassInv' /\ FiredInv'
    <3>1. now' >= now /\ now' \in 1..MaxTime
      BY <1>3, <2>2
    <3> QED
      BY <1>1, <1>3, <2>6, <3>1, SamePasses DEF CronInv
  <2> QED
    BY <1>2, <2>6, <2>7, <2>8 DEF CronInv
<1> QED
  BY <1>4, <1>5

\* An admin request changes entries alone, and disarms what it replaces.
LEMMA CronAdmins ==
  ASSUME Timetable, CronInv, Admins
  PROVE  CronInv' /\ CursorsKept
<1>1. UNCHANGED <<now, fired, host, pass>>
  BY DEF Admins, UpsertCron, PauseCron, ResumeCron, setCronPaused, DeleteCron
<1>2. KeyInv' /\ OneLiveTaskPerSlot' /\ PassInv'
  BY <1>1 DEF CronInv, KeyInv, PassInv, OneLiveTaskPerSlot
<1>3. FiredInv'
  BY ZenonT(40), <1>1 DEF CronInv, FiredInv, HasTask, FirstOf
<1>4. EntriesInv' /\ CursorsKept
  <2>1. PICK id \in EntryID :
          \/ \E spec \in Period \cup {Invalid}, paused \in BOOLEAN : UpsertCron(id, spec, paused)
          \/ \E paused \in BOOLEAN : setCronPaused(id, paused)
          \/ DeleteCron(id)
    BY ZenonT(40) DEF Admins, PauseCron, ResumeCron
  <2>2. ASSUME answer' \in {"none", "OK", "NotFound", "InvalidArgument"}, UNCHANGED cronEntries
        PROVE  EntriesInv' /\ CursorsKept
    BY <2>2 DEF CronInv, EntriesInv, CursorsKept
  <2>3. ASSUME NEW new \in CronEntry \cup {Absent},
               answer' = "OK", cronEntries' = [cronEntries EXCEPT ![id] = new],
               new = Absent \/ new.nextRunAt \in {0, cronEntries[id].nextRunAt}
        PROVE  EntriesInv' /\ CursorsKept
    BY <2>3 DEF CronInv, EntriesInv, CursorsKept
  <2>4. ASSUME NEW spec \in Period \cup {Invalid}, NEW paused \in BOOLEAN, UpsertCron(id, spec, paused)
        PROVE  EntriesInv' /\ CursorsKept
    <3>1. CASE spec = Invalid
      BY <2>2, <2>4, <3>1 DEF UpsertCron, answered
    <3>2. CASE spec # Invalid
      <4> DEFINE new == [spec |-> spec, paused |-> paused, nextRunAt |-> 0]
      <4>1. new \in CronEntry /\ new.nextRunAt = 0
        BY <3>2 DEF CronEntry
      <4>2. answer' = "OK" /\ cronEntries' = [cronEntries EXCEPT ![id] = new]
        BY <2>4, <3>2 DEF UpsertCron, answered, Zero
      <4> HIDE DEF new
      <4> QED
        BY ZenonT(40), <2>3, <4>1, <4>2
    <3> QED
      BY <3>1, <3>2
  <2>5. ASSUME NEW paused \in BOOLEAN, setCronPaused(id, paused)
        PROVE  EntriesInv' /\ CursorsKept
    <3>1. CASE cronEntries[id] = Absent
      BY <2>2, <2>5, <3>1 DEF setCronPaused, answered
    <3>2. CASE cronEntries[id] # Absent
      <4> DEFINE new == [cronEntries[id] EXCEPT !.paused = paused]
      <4>1. cronEntries[id] \in CronEntry
        BY <3>2 DEF CronInv, EntriesInv
      <4>2. new \in CronEntry /\ new.nextRunAt = cronEntries[id].nextRunAt
        BY <4>1 DEF CronEntry
      <4>3. answer' = "OK" /\ cronEntries' = [cronEntries EXCEPT ![id] = new]
        BY <2>5, <3>2 DEF setCronPaused, answered
      <4> HIDE DEF new
      <4> QED
        BY ZenonT(40), <2>3, <4>2, <4>3
    <3> QED
      BY <3>1, <3>2
  <2>6. ASSUME DeleteCron(id) PROVE EntriesInv' /\ CursorsKept
    BY ZenonT(40), <2>3, <2>6 DEF DeleteCron, answered
  <2> QED
    BY <2>1, <2>4, <2>5, <2>6
<1> QED
  BY <1>2, <1>3, <1>4 DEF CronInv

LEMMA CronStart ==
  ASSUME Timetable, CronInit
  PROVE  CronInv
<1> DEFINE p == [at |-> "idle", now |-> 0, due |-> {}]
<1>1. pass = [h \in Host |-> p] /\ p \in CronPass /\ p.at = "idle" /\ p.now = 0 /\ p.due = {}
  BY ZenonT(40) DEF CronInit, IdlePass, Zero, CronPass
<1>2. /\ now = 1 /\ cronEntries = [id \in EntryID |-> Absent] /\ fired = <<>>
      /\ host \in Host /\ answer = "none"
  BY DEF CronInit
<1> HIDE DEF p
<1>3. EntriesInv
  BY <1>2 DEF EntriesInv
<1>4. PassInv
  <2>1. now \in 1..MaxTime
    BY <1>2 DEF Timetable
  <2>2. pass \in [Host -> CronPass]
    BY <1>1
  <2>3. ASSUME NEW h \in Host PROVE pass[h] = p
    BY <1>1
  <2>4. ASSUME NEW h \in Host
        PROVE  /\ pass[h].at # "idle" <=> pass[h].due # {}
               /\ pass[h].now <= now
               /\ \A e \in pass[h].due : e.nextRunAt <= pass[h].now
    BY <1>1, <1>2, <2>3
  <2> QED
    BY <1>2, <2>1, <2>2, <2>4 DEF PassInv
<1>5. fired \in Seq(CronTask) /\ DOMAIN fired = {}
  BY <1>2
<1>6. KeyInv /\ OneLiveTaskPerSlot
  BY <1>5 DEF KeyInv, OneLiveTaskPerSlot
<1>7. FiredInv
  BY <1>1 DEF FiredInv
<1> QED
  BY <1>3, <1>4, <1>6, <1>7 DEF CronInv

LEMMA CronStep ==
  ASSUME Timetable, CronInv, [CronNext]_cronVars
  PROVE  CronInv' /\ CursorsKept
<1>1. CASE \E h \in Host : tick(h) \/ passFails(h) \/ relocate(h) \/ nodeDies(h)
  BY <1>1, CronMaterialize, CronArm, CronFire, CronAdvance, CronMoves DEF tick
<1>2. CASE passes \/ \E i \in DOMAIN fired : completes(i)
  BY <1>2, CronAges
<1>3. CASE Admins
  BY <1>3, CronAdmins
<1>4. CASE UNCHANGED cronVars
  <2>1. UNCHANGED <<now, cronEntries, fired, host, pass, answer>>
    BY <1>4 DEF cronVars
  <2>2. EntriesInv' /\ PassInv' /\ KeyInv' /\ CursorsKept
    BY ZenonT(40), <2>1 DEF CronInv, EntriesInv, PassInv, KeyInv, CursorsKept
  <2>3. FiredInv'
    BY ZenonT(40), <2>1 DEF CronInv, FiredInv, HasTask, FirstOf
  <2>4. OneLiveTaskPerSlot'
    BY ZenonT(40), <2>1 DEF CronInv, OneLiveTaskPerSlot
  <2> QED
    BY <2>2, <2>3, <2>4 DEF CronInv
<1> QED
  BY <1>1, <1>2, <1>3, <1>4 DEF CronNext

LEMMA CronTyped == CronInv => CronTypeOK
  BY DEF CronInv, EntriesInv, PassInv, CronEntry, CronPass, CronTypeOK

\* However the singleton's host moves or dies in the middle of a pass, calls
\* fail and operators change the entries, no step skips a due slot, takes a
\* cursor back or leaves a slot with two live tasks (fireCron, armCron,
\* UpdateCronNextRun, UniqueKey), for every set of nodes, entries and specs.
THEOREM SlotsAlwaysKept ==
  ASSUME Timetable PROVE CronSpec => SlotsKept
<1>1. CronInit => CronInv
  BY CronStart
<1>2. CronInv /\ [CronNext]_cronVars => CronInv'
  BY CronStep
<1>3. CronInv /\ [CronNext]_cronVars => [SlotsKeptStep]_cronVars
  <2> SUFFICES ASSUME CronInv, [CronNext]_cronVars PROVE SlotsKeptStep
    OBVIOUS
  <2>1. CronInv' /\ CursorsKept
    BY CronStep
  <2>2. CronTypeOK' /\ OneLiveTaskPerSlot'
    BY <2>1, CronTyped, PTL DEF CronInv
  <2>3. SlotFiresBeforeAdvanceStep
    BY <2>1 DEF CursorsKept, HasTask, SlotFiresBeforeAdvanceStep, Zero
  <2> QED
    BY <2>2, <2>3 DEF SlotsKeptStep
<1> QED
  BY <1>1, <1>2, <1>3, PTL DEF CronSpec, SlotsKept
=============================================================================
