--------------------------- MODULE ChatClientProofs ---------------------------
(***************************************************************************)
(* The tab of the cockpit, for any number of sessions, turns and deltas,   *)
(* shows what it was sent.                                                 *)
(*                                                                         *)
(* TabInv takes what a bubble shows and what waits for it as one text.     *)
(***************************************************************************)
EXTENDS ChatClient, WellFoundedInduction, FiniteSetTheorems, TLAPS

Nets == {"unsent", "open", "replaced", "done", "aborted", "settled"}
TurnRows == [chat : Chats \cup {NoChat}, gen : Nat, net : Nets, sent : Nat, kept : BOOLEAN]
MessageRows == [of : Sends, role : {"user", "assistant", "error"}, local : BOOLEAN,
                text : Seq(Nat), streaming : BOOLEAN, error : BOOLEAN]
LoadRows == [chat : Chats \cup {NoChat}, gen : Nat, at : {"none", "asked", "read"},
             entry : BOOLEAN, rows : Seq(Sends)]

Started(t) == turn[t].net # "unsent"

TabTypes ==
    /\ known \subseteq used /\ used \subseteq Chats /\ shown \in known /\ Initial \in used
    /\ msgs \in [Chats -> Seq(MessageRows)]
    /\ failed \in [Chats -> 0 .. SendBound]
    /\ gen \in Nat /\ runs \in Chats \cup {NoChat}
    /\ ctl \in [Chats -> 0 .. SendBound]
    /\ buffer \in [Sends -> Seq(Nat \ {0})]
    /\ bubble \in 0 .. SendBound
    /\ turn \in [Sends -> TurnRows]
    /\ stored \in [Chats -> Seq(Sends)]
    /\ load \in [Loads -> LoadRows]
    /\ \A l \in Loads : load[l].at # "none" => load[l].chat \in Chats

\* A text of a turn that has sent n deltas: they rise by one, and only the first
\* may be the whole text.
InOrder(y, n) ==
    /\ \A k \in 1 .. Len(y) : y[k] <= n
    /\ \A k \in 2 .. Len(y) : y[k - 1] # 0 => y[k] = y[k - 1] + 1
    /\ y # <<>> => y[1] \in {0, 1}

\* The next delta continues it.
UpTo(y, n) == IF y = <<>> THEN n = 0 ELSE y[Len(y)] \in {0, n}

StartFits(t) ==
    /\ ~Started(t) => turn[t] = Unsent /\ buffer[t] = <<>>
    /\ Started(t) => turn[t].chat \in Chats
    /\ turn[t].gen <= gen

\* What a bubble shows and what waits for it are one text.
TextFits(t) ==
    \A c \in Chats : \A i \in DOMAIN msgs[c] :
        IsBubble(msgs[c][i], t) =>
            /\ Started(t) /\ turn[t].chat = c
            /\ InOrder(msgs[c][i].text \o buffer[t], turn[t].sent)
            /\ Current(t) => UpTo(msgs[c][i].text \o buffer[t], turn[t].sent)

Live(t) == turn[t].net \in {"open", "replaced"} /\ Current(t) /\ turn[t].chat \in known
LiveFits(t) == Live(t) => \E i \in DOMAIN msgs[turn[t].chat] : IsBubble(msgs[turn[t].chat][i], t)

TabFits(t) == StartFits(t) /\ TextFits(t) /\ LiveFits(t)

\* Only a turn that was sent has a controller.
CtlFits == \A c \in Chats : ctl[c] # 0 => Started(ctl[c])

TabInv ==
    /\ TabTypes
    /\ CtlFits
    /\ \A t \in Sends : StartFits(t) /\ TextFits(t) /\ LiveFits(t)

---------------------------------------------------------------------------
\* Texts as sequences.
LEMMA JoinIs ==
    ASSUME NEW x \in Seq(Nat), NEW b \in Seq(Nat)
    PROVE  /\ x \o b \in Seq(Nat) /\ Len(x \o b) = Len(x) + Len(b)
           /\ \A k \in 1 .. Len(x) : (x \o b)[k] = x[k]
           /\ \A k \in 1 .. Len(b) : (x \o b)[Len(x) + k] = b[k]
           /\ Len(x) \in Nat /\ Len(b) \in Nat
  OBVIOUS

LEMMA WaitingIsText == \A b \in Seq(Nat \ {0}) : b \in Seq(Nat)
  OBVIOUS

\* What is shown of a text is in order.
LEMMA ShownInOrder ==
    ASSUME NEW x \in Seq(Nat), NEW b \in Seq(Nat), NEW n \in Nat, InOrder(x \o b, n)
    PROVE  InOrder(x, n)
<1> DEFINE y == x \o b
<1>1. /\ Len(y) = Len(x) + Len(b) /\ Len(x) \in Nat /\ Len(b) \in Nat
      /\ \A k \in 1 .. Len(x) : y[k] = x[k]
  BY JoinIs
<1>2. \A k \in 1 .. Len(x) : x[k] <= n
  <2> SUFFICES ASSUME NEW k \in 1 .. Len(x) PROVE x[k] <= n
    OBVIOUS
  <2>1. k \in 1 .. Len(y) /\ y[k] = x[k]
    BY <1>1
  <2> QED BY <2>1 DEF InOrder
<1>3. \A k \in 2 .. Len(x) : x[k - 1] # 0 => x[k] = x[k - 1] + 1
  <2> SUFFICES ASSUME NEW k \in 2 .. Len(x), x[k - 1] # 0 PROVE x[k] = x[k - 1] + 1
    OBVIOUS
  <2>1. k \in 2 .. Len(y) /\ y[k] = x[k] /\ y[k - 1] = x[k - 1]
    BY <1>1
  <2> QED BY <2>1 DEF InOrder
<1>4. x # <<>> => x[1] \in {0, 1}
  <2> SUFFICES ASSUME x # <<>> PROVE x[1] \in {0, 1}
    OBVIOUS
  <2>1. Len(x) >= 1
    OBVIOUS
  <2>2. y # <<>> /\ y[1] = x[1]
    BY <1>1, <2>1
  <2> QED BY <2>2 DEF InOrder
<1> QED BY <1>2, <1>3, <1>4 DEF InOrder

\* The next delta continues a text.
LEMMA NextInOrder ==
    ASSUME NEW x \in Seq(Nat), NEW b \in Seq(Nat), NEW n \in Nat, InOrder(x \o b, n), UpTo(x \o b, n)
    PROVE  InOrder(x \o Append(b, n + 1), n + 1) /\ UpTo(x \o Append(b, n + 1), n + 1)
<1> DEFINE y == x \o b
           z == x \o Append(b, n + 1)
<1>1. /\ Len(y) = Len(x) + Len(b) /\ Len(x) \in Nat /\ Len(b) \in Nat /\ y \in Seq(Nat)
      /\ \A k \in 1 .. Len(x) : y[k] = x[k]
      /\ \A k \in 1 .. Len(b) : y[Len(x) + k] = b[k]
  BY JoinIs
<1>2. /\ Append(b, n + 1) \in Seq(Nat) /\ Len(Append(b, n + 1)) = Len(b) + 1
      /\ \A k \in 1 .. Len(b) : Append(b, n + 1)[k] = b[k]
      /\ Append(b, n + 1)[Len(b) + 1] = n + 1
  OBVIOUS
<1>3. /\ Len(z) = Len(y) + 1 /\ z \in Seq(Nat)
      /\ \A k \in 1 .. Len(x) : z[k] = x[k]
      /\ \A k \in 1 .. Len(b) + 1 : z[Len(x) + k] = Append(b, n + 1)[k]
  BY <1>1, <1>2, JoinIs
<1>4. z[Len(y) + 1] = n + 1
  BY <1>1, <1>2, <1>3
<1>5. \A k \in 1 .. Len(y) : z[k] = y[k]
  <2> SUFFICES ASSUME NEW k \in 1 .. Len(y) PROVE z[k] = y[k]
    OBVIOUS
  <2>1. CASE k \in 1 .. Len(x)
    BY <2>1, <1>1, <1>3
  <2>2. CASE k \notin 1 .. Len(x)
    <3>1. PICK j \in 1 .. Len(b) : k = Len(x) + j
      <4>1. k - Len(x) \in 1 .. Len(b) /\ k = Len(x) + (k - Len(x))
        BY <2>2, <1>1
      <4> QED BY <4>1
    <3>2. y[k] = b[j] /\ z[k] = b[j]
      BY <3>1, <1>1, <1>2, <1>3
    <3> QED BY <3>2
  <2> QED BY <2>1, <2>2
<1> HIDE DEF y, z
<1>6. Len(y) \in Nat /\ (y # <<>> <=> Len(y) # 0) /\ z # <<>> /\ InOrder(y, n) /\ UpTo(y, n)
  <2>1. Len(y) \in Nat /\ y \in Seq(Nat) /\ z \in Seq(Nat) /\ Len(z) = Len(y) + 1
    BY <1>1, <1>3
  <2>2. y # <<>> <=> Len(y) # 0
    BY <2>1
  <2>3. z # <<>>
    BY <2>1
  <2>4. InOrder(y, n) /\ UpTo(y, n)
    BY DEF y
  <2> QED BY <2>1, <2>2, <2>3, <2>4
<1>7. \A k \in 1 .. Len(z) : z[k] <= n + 1
  <2> SUFFICES ASSUME NEW k \in 1 .. Len(z) PROVE z[k] <= n + 1
    OBVIOUS
  <2>1. CASE k \in 1 .. Len(y)
    <3>1. y[k] <= n /\ y[k] \in Nat
      BY <2>1, <1>1, <1>6 DEF InOrder
    <3> QED BY <2>1, <3>1, <1>5
  <2>2. CASE k \notin 1 .. Len(y)
    BY <2>2, <1>3, <1>4, <1>6
  <2> QED BY <2>1, <2>2
<1>8. \A k \in 2 .. Len(z) : z[k - 1] # 0 => z[k] = z[k - 1] + 1
  <2> SUFFICES ASSUME NEW k \in 2 .. Len(z), z[k - 1] # 0 PROVE z[k] = z[k - 1] + 1
    OBVIOUS
  <2>1. CASE k = Len(y) + 1
    <3>1. z[k - 1] = y[Len(y)] /\ y # <<>>
      BY <2>1, <1>3, <1>5, <1>6
    <3> QED BY <2>1, <3>1, <1>4, <1>6 DEF UpTo
  <2>2. CASE k # Len(y) + 1
    <3>1. k \in 2 .. Len(y) /\ k \in 1 .. Len(y) /\ k - 1 \in 1 .. Len(y)
      BY <2>2, <1>3, <1>6
    <3>2. z[k] = y[k] /\ z[k - 1] = y[k - 1]
      BY <3>1, <1>5
    <3> QED BY <3>1, <3>2, <1>6 DEF InOrder
  <2> QED BY <2>1, <2>2
<1>9. z[1] \in {0, 1}
  <2>1. CASE y = <<>>
    BY <2>1, <1>4, <1>6 DEF UpTo
  <2>2. CASE y # <<>>
    BY <2>2, <1>5, <1>6 DEF InOrder
  <2> QED BY <2>1, <2>2
<1>10. InOrder(z, n + 1)
  BY <1>7, <1>8, <1>9 DEF InOrder
<1>11. UpTo(z, n + 1)
  BY <1>3, <1>4, <1>6 DEF UpTo
<1> QED BY <1>10, <1>11 DEF z

\* The places of what is joined behind c elements, and the place before each.
LEMMA NextPlace ==
    ASSUME NEW c \in Nat, NEW m \in Nat, NEW k \in 2 .. m
    PROVE  /\ k - 1 \in 1 .. m /\ c + (k - 1) = c + k - 1
           /\ k \in 1 .. m /\ c + k \in 2 .. c + m
OBVIOUS

\* So does what waits, when the whole text takes the place of what is shown.
LEMMA RewrittenInOrder ==
    ASSUME NEW x \in Seq(Nat), NEW b \in Seq(Nat \ {0}), NEW n \in Nat,
           InOrder(x \o b, n), UpTo(x \o b, n)
    PROVE  InOrder(<<0>> \o b, n) /\ UpTo(<<0>> \o b, n)
<1> DEFINE y == x \o b
           z == <<0>> \o b
<1>0. b \in Seq(Nat) /\ <<0>> \in Seq(Nat) /\ Len(<<0>>) = 1 /\ <<0>>[1] = 0
  BY WaitingIsText
<1>1. /\ Len(y) = Len(x) + Len(b) /\ Len(x) \in Nat /\ Len(b) \in Nat /\ y \in Seq(Nat)
      /\ \A k \in 1 .. Len(b) : y[Len(x) + k] = b[k]
  BY <1>0, JoinIs
<1>2. /\ Len(z) = 1 + Len(b) /\ z \in Seq(Nat) /\ z[1] = 0
      /\ \A k \in 1 .. Len(b) : z[1 + k] = b[k]
  <2>1. \A k \in 1 .. Len(<<0>>) : z[k] = <<0>>[k]
    BY <1>0, JoinIs
  <2>2. Len(z) = Len(<<0>>) + Len(b) /\ z \in Seq(Nat)
        /\ \A k \in 1 .. Len(b) : z[Len(<<0>>) + k] = b[k]
    BY <1>0, JoinIs
  <2> QED BY <1>0, <2>1, <2>2
<1>3. \A k \in 1 .. Len(b) : b[k] # 0
  OBVIOUS
<1> HIDE DEF y, z
<1>4. z # <<>> /\ InOrder(y, n) /\ UpTo(y, n)
  BY <1>1, <1>2 DEF y, z
<1>5. \A k \in 1 .. Len(b) : b[k] <= n
  <2> SUFFICES ASSUME NEW k \in 1 .. Len(b) PROVE b[k] <= n
    OBVIOUS
  <2>1. Len(x) \in Nat /\ Len(b) \in Nat /\ Len(y) = Len(x) + Len(b) /\ y[Len(x) + k] = b[k]
    BY <1>1
  <2>2. Len(x) + k \in 1 .. Len(x) + Len(b)
    BY <2>1
  <2> QED BY <2>1, <2>2, <1>4 DEF InOrder
<1>6. \A k \in 2 .. Len(b) : b[k] = b[k - 1] + 1
  <2> SUFFICES ASSUME NEW k \in 2 .. Len(b) PROVE b[k] = b[k - 1] + 1
    OBVIOUS
  <2>1. /\ Len(x) + k \in 2 .. Len(y) /\ y[Len(x) + k] = b[k]
        /\ y[Len(x) + k - 1] = b[k - 1] /\ b[k - 1] # 0
    <3>1. Len(x) \in Nat /\ Len(b) \in Nat
      BY <1>1
    <3>2. /\ k - 1 \in 1 .. Len(b) /\ Len(x) + (k - 1) = Len(x) + k - 1
          /\ k \in 1 .. Len(b) /\ Len(x) + k \in 2 .. Len(x) + Len(b)
      BY <3>1, NextPlace
    <3> QED BY <3>2, <1>1, <1>3
  <2> QED BY <2>1, <1>4 DEF InOrder
<1>7. \A k \in 1 .. Len(z) : z[k] <= n
  <2> SUFFICES ASSUME NEW k \in 1 .. Len(z) PROVE z[k] <= n
    OBVIOUS
  <2>1. CASE k = 1
    BY <2>1, <1>2
  <2>2. CASE k # 1
    <3>1. k - 1 \in 1 .. Len(b) /\ 1 + (k - 1) = k
      BY <2>2, <1>1, <1>2
    <3> QED BY <3>1, <1>2, <1>5
  <2> QED BY <2>1, <2>2
<1>8. \A k \in 2 .. Len(z) : z[k - 1] # 0 => z[k] = z[k - 1] + 1
  <2> SUFFICES ASSUME NEW k \in 2 .. Len(z), z[k - 1] # 0 PROVE z[k] = z[k - 1] + 1
    OBVIOUS
  <2>1. k # 2
    BY <1>2
  <2>2. k - 1 \in 2 .. Len(b) /\ 1 + (k - 1) = k /\ 1 + (k - 1 - 1) = k - 1
        /\ k - 1 - 1 \in 1 .. Len(b) /\ k - 1 \in 1 .. Len(b)
    BY <2>1, <1>1, <1>2
  <2>3. z[k] = b[k - 1] /\ z[k - 1] = b[k - 1 - 1]
    BY <2>2, <1>2
  <2> QED BY <2>2, <2>3, <1>6
<1>9. InOrder(z, n)
  BY <1>2, <1>7, <1>8 DEF InOrder
<1>10. UpTo(z, n)
  <2>1. CASE b = <<>>
    BY <2>1, <1>1, <1>2, <1>4 DEF UpTo
  <2>2. CASE b # <<>>
    <3>1. Len(b) \in 1 .. Len(b) /\ Len(x) + Len(b) = Len(y) /\ 1 + Len(b) = Len(z)
      BY <2>2, <1>0, <1>1, <1>2
    <3>2. z[Len(z)] = b[Len(b)] /\ y[Len(y)] = b[Len(b)] /\ y # <<>>
      BY <3>1, <1>1, <1>2
    <3> QED BY <3>2, <1>4 DEF UpTo
  <2> QED BY <2>1, <2>2
<1> QED BY <1>9, <1>10 DEF z

---------------------------------------------------------------------------
\* A step that brings a turn nothing: it goes on as it was, or ends; what waited
\* for its bubble waits, is shown or is thrown away; and while it is listened to
\* its bubble stays.
Goes(t) ==
    /\ ~Started(t) => turn'[t] = turn[t] /\ buffer'[t] = <<>>
    /\ Started(t) => Started(t)' /\ turn'[t].chat = turn[t].chat
    /\ turn'[t].sent >= turn[t].sent /\ turn'[t].gen <= gen'
    /\ Started(t) /\ Current(t)' => Current(t) /\ turn'[t].sent = turn[t].sent
Inherits(t) ==
    \A c \in Chats : \A j \in DOMAIN msgs'[c] : IsBubble(msgs'[c][j], t) =>
        \E i \in DOMAIN msgs[c] :
            /\ IsBubble(msgs[c][i], t)
            /\ \/ msgs'[c][j].text \o buffer'[t] = msgs[c][i].text \o buffer[t]
               \/ /\ ~Current(t)'
                  /\ buffer'[t] = <<>> /\ msgs'[c][j].text = msgs[c][i].text
Stays(t) ==
    Live(t)' => /\ Live(t) /\ turn'[t].chat = turn[t].chat
                /\ \A i \in DOMAIN msgs[turn[t].chat] : IsBubble(msgs[turn[t].chat][i], t) =>
                      \E j \in DOMAIN msgs'[turn[t].chat] : IsBubble(msgs'[turn[t].chat][j], t)
Rests(t) == Goes(t) /\ buffer'[t] \in {buffer[t], <<>>} /\ Inherits(t) /\ Stays(t)

LEMMA BubbleIs ==
    ASSUME TabTypes, NEW c \in Chats, NEW i \in DOMAIN msgs[c]
    PROVE  msgs[c][i] \in MessageRows /\ msgs[c][i].text \in Seq(Nat)
<1>1. msgs[c] \in Seq(MessageRows)
  BY DEF TabTypes
<1>2. msgs[c][i] \in MessageRows
  BY <1>1
<1> QED BY <1>2 DEF MessageRows

LEMMA OrderIsOpen ==
    ASSUME NEW x, NEW n \in Nat, NEW m \in Nat, n <= m, x \in Seq(Nat), InOrder(x, n)
    PROVE  InOrder(x, m)
<1>1. \A k \in 1 .. Len(x) : x[k] \in Nat
  OBVIOUS
<1> QED BY <1>1 DEF InOrder

LEMMA RestFits ==
    ASSUME TabInv, TabTypes', NEW t \in Sends, Rests(t)
    PROVE  TabFits(t)'
<1>0. StartFits(t) /\ TextFits(t) /\ LiveFits(t) /\ TabTypes
  BY DEF TabInv
<1>1. StartFits(t)'
  <2>1. Started(t) => turn'[t].chat \in Chats
    BY <1>0 DEF Rests, Goes, StartFits
  <2>2. turn[t].net = "unsent" => turn'[t] = turn[t] /\ buffer'[t] = <<>>
    BY DEF Rests, Goes, Started
  <2> QED BY <1>0, <2>1, <2>2 DEF Rests, Goes, StartFits, Started
<1>2. TextFits(t)'
  <2> SUFFICES ASSUME NEW c \in Chats, NEW j \in DOMAIN msgs'[c], IsBubble(msgs'[c][j], t)
               PROVE  /\ Started(t)' /\ turn'[t].chat = c
                      /\ InOrder(msgs'[c][j].text \o buffer'[t], turn'[t].sent)
                      /\ Current(t)' => UpTo(msgs'[c][j].text \o buffer'[t], turn'[t].sent)
    BY DEF TextFits, IsBubble
  <2>1. PICK i \in DOMAIN msgs[c] :
            /\ IsBubble(msgs[c][i], t)
            /\ \/ msgs'[c][j].text \o buffer'[t] = msgs[c][i].text \o buffer[t]
               \/ /\ ~Current(t)'
                  /\ buffer'[t] = <<>> /\ msgs'[c][j].text = msgs[c][i].text
    BY DEF Rests, Inherits
  <2> DEFINE x == msgs[c][i].text
  <2>2. /\ Started(t) /\ turn[t].chat = c /\ InOrder(x \o buffer[t], turn[t].sent)
        /\ Current(t) => UpTo(x \o buffer[t], turn[t].sent)
    BY <1>0, <2>1 DEF TextFits
  <2>3. /\ x \in Seq(Nat) /\ buffer[t] \in Seq(Nat) /\ turn[t].sent \in Nat /\ turn'[t].sent \in Nat
        /\ turn[t].sent <= turn'[t].sent
    <3>1. buffer[t] \in Seq(Nat \ {0}) /\ turn[t] \in TurnRows /\ turn'[t] \in TurnRows
      BY <1>0 DEF TabTypes
    <3>2. turn[t].sent \in Nat /\ turn'[t].sent \in Nat
      BY <3>1 DEF TurnRows
    <3> QED BY <1>0, <3>1, <3>2, BubbleIs, WaitingIsText DEF Rests, Goes
  <2>4. Started(t)' /\ turn'[t].chat = c
    BY <2>2 DEF Rests, Goes
  <2>5. x \o buffer[t] \in Seq(Nat)
    BY <2>3, JoinIs
  <2>6. CASE msgs'[c][j].text \o buffer'[t] = x \o buffer[t]
    <3>1. InOrder(x \o buffer[t], turn'[t].sent)
      BY <2>2, <2>3, <2>5, OrderIsOpen
    <3>2. Current(t)' => UpTo(x \o buffer[t], turn'[t].sent)
      BY <2>2 DEF Rests, Goes
    <3> QED BY <2>4, <2>6, <3>1, <3>2
  <2>7. CASE ~Current(t)' /\ buffer'[t] = <<>> /\ msgs'[c][j].text = x
    <3>1. InOrder(x, turn[t].sent)
      BY <2>2, <2>3, ShownInOrder
    <3>2. InOrder(x, turn'[t].sent)
      BY <3>1, <2>3, OrderIsOpen
    <3>3. x \o <<>> = x
      BY <2>3
    <3> QED BY <2>4, <2>7, <3>2, <3>3
  <2> QED BY <2>1, <2>6, <2>7
<1>3. LiveFits(t)'
  <2> SUFFICES ASSUME Live(t)'
               PROVE \E j \in DOMAIN msgs'[turn'[t].chat] : IsBubble(msgs'[turn'[t].chat][j], t)
    BY DEF LiveFits, IsBubble
  <2> QED BY <1>0 DEF Rests, Stays, LiveFits
<1> QED BY <1>1, <1>2, <1>3 DEF TabFits

\* Nor is more of it heard.
LEMMA RestIsSilent ==
    ASSUME TabTypes, TabTypes', NEW t \in Sends, Rests(t)
    PROVE  Heard(t)' \subseteq Heard(t)
<1> DEFINE Hears(ms, b, e) ==
               \/ e \in ToSet(b)
               \/ \E c \in Chats : \E i \in DOMAIN ms[c] :
                      IsBubble(ms[c][i], t) /\ e \in ToSet(ms[c][i].text)
<1>1. \A e : e \in Heard(t) <=> Hears(msgs, buffer[t], e)
  BY DEF Heard, TextOf, ToSet
<1>2. \A e : e \in Heard(t)' <=> Hears(msgs', buffer'[t], e)
  BY DEF Heard, TextOf, ToSet, IsBubble
<1>3. ASSUME NEW e, Hears(msgs', buffer'[t], e) PROVE Hears(msgs, buffer[t], e)
  <2>0. ToSet(<<>>) = {}
    BY DEF ToSet
  <2>1. CASE e \in ToSet(buffer'[t])
    BY <2>0, <2>1 DEF Rests
  <2>2. CASE \E c \in Chats : \E j \in DOMAIN msgs'[c] :
                 IsBubble(msgs'[c][j], t) /\ e \in ToSet(msgs'[c][j].text)
    <3>0. PICK c \in Chats :
              \E j \in DOMAIN msgs'[c] : IsBubble(msgs'[c][j], t) /\ e \in ToSet(msgs'[c][j].text)
      BY <2>2
    <3>1. PICK j \in DOMAIN msgs'[c] : IsBubble(msgs'[c][j], t) /\ e \in ToSet(msgs'[c][j].text)
      BY <3>0
    <3>2. PICK i \in DOMAIN msgs[c] :
            /\ IsBubble(msgs[c][i], t)
            /\ \/ msgs'[c][j].text \o buffer'[t] = msgs[c][i].text \o buffer[t]
               \/ buffer'[t] = <<>> /\ msgs'[c][j].text = msgs[c][i].text
      BY <3>1 DEF Rests, Inherits
    <3> DEFINE x == msgs[c][i].text
               y == msgs'[c][j].text
               b == buffer[t]
               d == buffer'[t]
    <3>3. x \in Seq(Nat) /\ y \in Seq(Nat) /\ b \in Seq(Nat) /\ d \in Seq(Nat)
      <4>1. msgs'[c] \in Seq(MessageRows) /\ buffer'[t] \in Seq(Nat \ {0}) /\ buffer[t] \in Seq(Nat \ {0})
        BY DEF TabTypes
      <4>2. msgs'[c][j] \in MessageRows
        BY <4>1
      <4>3. y \in Seq(Nat)
        BY <4>2 DEF MessageRows
      <4> QED BY <4>1, <4>3, BubbleIs, WaitingIsText
    <3>4. CASE y \o d = x \o b
      <4>1. PICK k \in 1 .. Len(y) : y[k] = e
        BY <3>1, <3>3 DEF ToSet
      <4> HIDE DEF x, y, b, d
      <4>2. e = (x \o b)[k] /\ k \in 1 .. Len(x) + Len(b) /\ Len(x) \in Nat /\ Len(b) \in Nat
        <5>1. (y \o d)[k] = y[k] /\ Len(y \o d) = Len(y) + Len(d) /\ Len(y) \in Nat /\ Len(d) \in Nat
          BY <4>1, <3>3, JoinIs
        <5>2. Len(x \o b) = Len(x) + Len(b) /\ Len(x) \in Nat /\ Len(b) \in Nat
          BY <3>3, JoinIs
        <5>3. Len(y) + Len(d) = Len(x) + Len(b)
          BY <5>1, <5>2, <3>4
        <5>4. k \in 1 .. Len(y) + Len(d)
          BY <4>1, <5>1
        <5> QED BY <4>1, <5>1, <5>2, <5>3, <5>4, <3>4
      <4>3. CASE k \in 1 .. Len(x)
        <5>1. e = x[k] /\ k \in DOMAIN x
          BY <4>2, <4>3, <3>3, JoinIs
        <5>2. e \in ToSet(x)
          BY <5>1 DEF ToSet
        <5> QED BY <5>2, <3>2 DEF x
      <4>4. CASE k \notin 1 .. Len(x)
        <5>1. k - Len(x) \in 1 .. Len(b) /\ Len(x) + (k - Len(x)) = k
          BY <4>2, <4>4
        <5>2. e = b[k - Len(x)] /\ k - Len(x) \in DOMAIN b
          BY <4>2, <5>1, <3>3, JoinIs
        <5>3. e \in ToSet(b)
          BY <5>2 DEF ToSet
        <5> QED BY <5>3 DEF b
      <4> QED BY <4>3, <4>4
    <3>5. CASE buffer'[t] = <<>> /\ msgs'[c][j].text = msgs[c][i].text
      BY <3>1, <3>2, <3>5
    <3> QED BY <3>2, <3>4, <3>5
  <2> QED BY <1>3, <2>1, <2>2
<1> QED BY <1>1, <1>2, <1>3

---------------------------------------------------------------------------
\* What a step leaves of the turns: new rows for some, no new listener.
KeepsTab ==
    /\ TabTypes' /\ CtlFits'
    /\ \A t \in Sends : Rests(t) \/ (TabFits(t)' /\ (~Started(t) \/ Current(t)))

\* The row of a turn changes by where its connection stands.
RowGoes(t, row) ==
    /\ row.chat = turn[t].chat /\ row.sent = turn[t].sent /\ row.gen = turn[t].gen
    /\ row.net # "unsent" <=> Started(t)
    /\ ~Started(t) => row = turn[t]
    /\ row.net \in {"open", "replaced"} => turn[t].net \in {"open", "replaced"}

TextsStay(t) ==
    \A c \in Chats : \A j \in DOMAIN msgs'[c] : IsBubble(msgs'[c][j], t) =>
        \E i \in DOMAIN msgs[c] : IsBubble(msgs[c][i], t) /\ msgs'[c][j].text = msgs[c][i].text
BubbleStays(t) ==
    Live(t)' => \A i \in DOMAIN msgs[turn[t].chat] : IsBubble(msgs[turn[t].chat][i], t) =>
                    \E j \in DOMAIN msgs'[turn[t].chat] : IsBubble(msgs'[turn[t].chat][j], t)

LEMMA StillWaits ==
    ASSUME TabInv, NEW t \in Sends, ~Started(t), buffer'[t] \in {buffer[t], <<>>}
    PROVE  buffer'[t] = <<>>
  BY DEF TabInv, StartFits

\* A new generation: nobody listens to an older turn.
LEMMA SilencedRests ==
    ASSUME TabInv, TabTypes', NEW t \in Sends, RowGoes(t, turn'[t]), gen' = gen + 1,
           buffer'[t] \in {buffer[t], <<>>}, TextsStay(t)
    PROVE  Rests(t)
<1>1. turn[t].gen <= gen /\ gen \in Nat /\ turn[t].gen \in Nat /\ turn[t].sent \in Nat
  <2>1. turn[t] \in TurnRows
    BY DEF TabInv, TabTypes
  <2> QED BY <2>1 DEF TabInv, TabTypes, StartFits, TurnRows
<1>2. ~Current(t)'
  BY <1>1 DEF Current, RowGoes
<1>3. Goes(t)
  BY <1>1, <1>2, StillWaits DEF Goes, RowGoes, Started
<1>4. Inherits(t)
  BY <1>2 DEF Inherits, TextsStay
<1>5. Stays(t)
  BY <1>2 DEF Stays, Live
<1> QED BY <1>3, <1>4, <1>5 DEF Rests

\* The same generation: nobody listens who did not.
LEMMA ContinuedRests ==
    ASSUME TabInv, TabTypes', NEW t \in Sends, RowGoes(t, turn'[t]), gen' = gen, runs' = runs,
           \A c \in Chats : ctl'[c] # 0 => ctl[c] # 0,
           buffer'[t] \in {buffer[t], <<>>}, Inherits(t), Started(t) => BubbleStays(t),
           turn[t].chat \in known' => turn[t].chat \in known
    PROVE  Rests(t)
<1>1. turn[t].gen <= gen /\ gen \in Nat /\ turn[t].gen \in Nat /\ turn[t].sent \in Nat
  <2>1. turn[t] \in TurnRows
    BY DEF TabInv, TabTypes
  <2> QED BY <2>1 DEF TabInv, TabTypes, StartFits, TurnRows
<1>2. Started(t) /\ Current(t)' => Current(t)
  <2>1. Started(t) => turn[t].chat \in Chats
    BY DEF TabInv, StartFits
  <2> QED BY <2>1 DEF Current, RowGoes
<1>3. Goes(t)
  BY <1>1, <1>2, StillWaits DEF Goes, RowGoes, Started
<1>4. Live(t)' => Live(t)
  <2> SUFFICES ASSUME Live(t)' PROVE Live(t)
    OBVIOUS
  <2>1. turn[t].net \in {"open", "replaced"} /\ turn[t].chat \in known' /\ Current(t)'
    BY DEF Live, RowGoes
  <2>2. Started(t)
    BY <2>1 DEF Started
  <2> QED BY <2>1, <2>2, <1>2 DEF Live
<1>5. Stays(t)
  BY <1>4 DEF Stays, BubbleStays, RowGoes, Live, Started
<1> QED BY <1>3, <1>5 DEF Rests

\* The lists of messages, and what a patch leaves of one.
SameBubbles(ms, old) ==
    /\ ms \in Seq(MessageRows) /\ DOMAIN ms = DOMAIN old
    /\ \A i \in DOMAIN old : \A t \in Sends : IsBubble(ms[i], t) <=> IsBubble(old[i], t)
SameTexts(ms, old) == SameBubbles(ms, old) /\ \A i \in DOMAIN old : ms[i].text = old[i].text

LEMMA ListIs ==
    ASSUME NEW ms \in Seq(MessageRows), NEW f,
           f = [i \in DOMAIN ms |-> f[i]], \A i \in DOMAIN ms : f[i] \in MessageRows
    PROVE  f \in Seq(MessageRows) /\ DOMAIN f = DOMAIN ms
<1>1. DOMAIN ms = 1 .. Len(ms) /\ Len(ms) \in Nat
  OBVIOUS
<1>2. f \in [1 .. Len(ms) -> MessageRows]
  BY <1>1
<1>3. f \in Seq(MessageRows)
  BY <1>1, <1>2
<1> QED BY <1>3

LEMMA PatchesKeep ==
    ASSUME NEW ms \in Seq(MessageRows), NEW t
    PROVE  SameTexts(Stopped(ms, t), ms) /\ SameTexts(Errored(ms, t), ms)
           /\ SameBubbles(Rewritten(ms, t), ms)
<1>1. \A i \in DOMAIN ms : ms[i] \in MessageRows
  OBVIOUS
<1>2. SameTexts(Stopped(ms, t), ms)
  <2> DEFINE f == Stopped(ms, t)
  <2>1. \A i \in DOMAIN ms : /\ f[i] \in MessageRows /\ f[i].text = ms[i].text
                             /\ \A u : IsBubble(f[i], u) <=> IsBubble(ms[i], u)
    BY <1>1 DEF Stopped, MessageRows, IsBubble
  <2>2. f = [i \in DOMAIN ms |-> f[i]]
    BY DEF Stopped
  <2> HIDE DEF f
  <2> QED BY <2>1, <2>2, ListIs DEF SameTexts, SameBubbles, f
<1>3. SameTexts(Errored(ms, t), ms)
  <2> DEFINE f == Errored(ms, t)
  <2>1. \A i \in DOMAIN ms : /\ f[i] \in MessageRows /\ f[i].text = ms[i].text
                             /\ \A u : IsBubble(f[i], u) <=> IsBubble(ms[i], u)
    BY <1>1 DEF Errored, MessageRows, IsBubble
  <2>2. f = [i \in DOMAIN ms |-> f[i]]
    BY DEF Errored
  <2> HIDE DEF f
  <2> QED BY <2>1, <2>2, ListIs DEF SameTexts, SameBubbles, f
<1>4. SameBubbles(Rewritten(ms, t), ms)
  <2> DEFINE f == Rewritten(ms, t)
  <2>0. <<0>> \in Seq(Nat)
    OBVIOUS
  <2>1. \A i \in DOMAIN ms : /\ f[i] \in MessageRows
                             /\ \A u : IsBubble(f[i], u) <=> IsBubble(ms[i], u)
    BY <1>1, <2>0 DEF Rewritten, MessageRows, IsBubble
  <2>2. f = [i \in DOMAIN ms |-> f[i]]
    BY DEF Rewritten
  <2> HIDE DEF f
  <2> QED BY <2>1, <2>2, ListIs DEF SameBubbles, f
<1> QED BY <1>2, <1>3, <1>4

\* Without a new text, each list in its place.
LEMMA SameRest ==
    ASSUME TabInv, TabTypes', NEW t \in Sends,
           \A c \in Chats : SameTexts(msgs'[c], msgs[c])
    PROVE  TextsStay(t) /\ (Started(t) => BubbleStays(t)) /\ (buffer'[t] = buffer[t] => Inherits(t))
<1>1. TextsStay(t)
  BY DEF TextsStay, SameTexts, SameBubbles
<1>2. buffer'[t] = buffer[t] => Inherits(t)
  BY <1>1 DEF TextsStay, Inherits
<1>3. Started(t) => BubbleStays(t)
  BY DEF BubbleStays, SameTexts, SameBubbles, TabInv, StartFits
<1> QED BY <1>1, <1>2, <1>3

LEMMA AbortedGoes ==
    ASSUME TabInv, NEW cs \in SUBSET Chats
    PROVE  /\ Aborted(cs) \in [Sends -> TurnRows]
           /\ \A t \in Sends : RowGoes(t, Aborted(cs)[t])
<1> SUFFICES ASSUME NEW t \in Sends
             PROVE  Aborted(cs)[t] \in TurnRows /\ RowGoes(t, Aborted(cs)[t])
  BY DEF Aborted
<1>1. turn[t] \in TurnRows
  BY DEF TabInv, TabTypes
<1>2. (\E c \in cs : ctl[c] = t) => Started(t)
  BY DEF TabInv, CtlFits, Sends
<1>3. CASE \E c \in cs : ctl[c] = t
  <2>1. Aborted(cs)[t] = [turn[t] EXCEPT !.net = "aborted"]
    BY <1>3 DEF Aborted
  <2> QED BY <1>1, <1>2, <1>3, <2>1 DEF TurnRows, Nets, RowGoes, Started
<1>4. CASE ~\E c \in cs : ctl[c] = t
  <2>1. Aborted(cs)[t] = turn[t]
    BY <1>4 DEF Aborted
  <2> QED BY <1>1, <2>1 DEF RowGoes, Started
<1> QED BY <1>3, <1>4

\* The row of one turn changes.
LEMMA MovedGoes ==
    ASSUME TabInv, NEW u \in Sends, Started(u), NEW n \in Nets \ {"unsent", "open", "replaced"},
           turn' = [turn EXCEPT ![u].net = n]
    PROVE  turn' \in [Sends -> TurnRows] /\ \A t \in Sends : RowGoes(t, turn'[t])
<1>1. turn \in [Sends -> TurnRows]
  BY DEF TabInv, TabTypes
<1>2. turn[u] \in TurnRows /\ turn'[u] = [turn[u] EXCEPT !.net = n]
      /\ \A t \in Sends \ {u} : turn'[t] = turn[t]
  BY <1>1
<1>3. turn'[u] \in TurnRows /\ RowGoes(u, turn'[u])
  BY <1>2 DEF TurnRows, Nets, RowGoes, Started
<1>4. \A t \in Sends \ {u} : RowGoes(t, turn'[t])
  BY <1>2 DEF RowGoes, Started
<1> QED BY <1>1, <1>2, <1>3, <1>4

\* A controller is that of a turn that was sent.
LEMMA CtlIs ==
    ASSUME TabInv, NEW c \in Chats, ctl[c] # 0
    PROVE  Started(ctl[c]) /\ ctl[c] \in Sends
<1>1. Started(ctl[c])
  BY DEF TabInv, CtlFits
<1>2. ctl[c] \in 0 .. SendBound
  BY DEF TabInv, TabTypes
<1>3. SendBound \in Nat
  BY ClientBounds
<1> QED BY <1>1, <1>2, <1>3 DEF Sends

LEMMA CtlKept ==
    ASSUME TabInv, \A t \in Sends : RowGoes(t, turn'[t]), \A c \in Chats : ctl'[c] \in {ctl[c], 0}
    PROVE  CtlFits'
<1> SUFFICES ASSUME NEW c \in Chats, ctl'[c] # 0 PROVE turn'[ctl'[c]].net # "unsent"
  BY DEF CtlFits, Started
<1>0. ctl'[c] = ctl[c]
  OBVIOUS
<1>1. ctl'[c] = ctl[c] /\ Started(ctl[c]) /\ ctl[c] \in Sends
  BY <1>0, CtlIs
<1> QED BY <1>1 DEF RowGoes, Started

\* A frame: what waits is shown.
LEMMA FlushKeeps ==
    ASSUME TabTypes
    PROVE  /\ Flushed(msgs) \in [Chats -> Seq(MessageRows)]
           /\ \A c \in Chats : SameBubbles(Flushed(msgs)[c], msgs[c])
           /\ \A c \in Chats : \A i \in DOMAIN msgs[c] : \A t \in Sends :
                 IsBubble(msgs[c][i], t) => Flushed(msgs)[c][i].text = msgs[c][i].text \o buffer[t]
<1> SUFFICES ASSUME NEW c \in Chats
             PROVE  /\ SameBubbles(Flushed(msgs)[c], msgs[c])
                    /\ \A i \in DOMAIN msgs[c] : \A t \in Sends : IsBubble(msgs[c][i], t)
                          => Flushed(msgs)[c][i].text = msgs[c][i].text \o buffer[t]
  BY DEF Flushed, SameBubbles
<1> DEFINE f == Flushed(msgs)[c]
<1>1. f = [i \in DOMAIN msgs[c] |->
             IF msgs[c][i].local /\ msgs[c][i].role = "assistant"
                THEN [msgs[c][i] EXCEPT !.text = msgs[c][i].text \o buffer[msgs[c][i].of]]
                ELSE msgs[c][i]]
  BY DEF Flushed
<1>2. msgs[c] \in Seq(MessageRows)
  BY DEF TabTypes
<1>3. ASSUME NEW i \in DOMAIN msgs[c]
      PROVE  /\ f[i] \in MessageRows
             /\ \A t \in Sends : IsBubble(f[i], t) <=> IsBubble(msgs[c][i], t)
             /\ \A t \in Sends : IsBubble(msgs[c][i], t) => f[i].text = msgs[c][i].text \o buffer[t]
  <2> DEFINE m == msgs[c][i]
  <2>0. m \in MessageRows /\ m.text \in Seq(Nat)
    BY BubbleIs
  <2>1. m.of \in Sends
    BY <2>0 DEF MessageRows
  <2>2. buffer[m.of] \in Seq(Nat)
    BY <2>1, WaitingIsText DEF TabTypes
  <2>3. m.text \o buffer[m.of] \in Seq(Nat)
    BY <2>0, <2>2, JoinIs
  <2>4. f[i] = IF m.local /\ m.role = "assistant" THEN [m EXCEPT !.text = m.text \o buffer[m.of]] ELSE m
    BY <1>1
  <2> HIDE DEF m, f
  <2> QED BY <2>0, <2>1, <2>3, <2>4 DEF MessageRows, IsBubble, m
<1>4. f = [i \in DOMAIN msgs[c] |-> f[i]]
  BY <1>1
<1> HIDE DEF f
<1>5. f \in Seq(MessageRows) /\ DOMAIN f = DOMAIN msgs[c]
  BY <1>2, <1>3, <1>4, ListIs
<1> QED BY <1>3, <1>5 DEF SameBubbles, f

\* After the finally clause each bubble is where it was, with what it had.
LEMMA EndedRest ==
    ASSUME TabInv, TabTypes', NEW ms \in [Chats -> Seq(MessageRows)], NEW t \in Sends,
           \/ ms = Flushed(msgs) /\ buffer' = NoBuffer
           \/ ms = msgs /\ buffer' = buffer,
           \A c \in Chats : \A j \in DOMAIN msgs'[c] : IsBubble(msgs'[c][j], t) =>
               j \in DOMAIN ms[c] /\ IsBubble(ms[c][j], t) /\ msgs'[c][j].text = ms[c][j].text,
           \A c \in Chats : \A i \in DOMAIN ms[c] : IsBubble(ms[c][i], t) =>
               i \in DOMAIN msgs'[c] /\ IsBubble(msgs'[c][i], t)
    PROVE  /\ Inherits(t) /\ (Started(t) => BubbleStays(t)) /\ buffer'[t] \in {buffer[t], <<>>}
<1>1. TabTypes
  BY DEF TabInv
<1>2. \A c \in Chats : SameBubbles(ms[c], msgs[c])
  BY <1>1, FlushKeeps DEF SameBubbles, TabTypes
<1>3. buffer'[t] \in {buffer[t], <<>>}
  BY DEF NoBuffer
<1>4. \A c \in Chats : \A i \in DOMAIN msgs[c] : IsBubble(msgs[c][i], t) =>
          ms[c][i].text \o buffer'[t] = msgs[c][i].text \o buffer[t]
  <2> SUFFICES ASSUME NEW c \in Chats, NEW i \in DOMAIN msgs[c], IsBubble(msgs[c][i], t)
               PROVE  ms[c][i].text \o buffer'[t] = msgs[c][i].text \o buffer[t]
    OBVIOUS
  <2>1. CASE ms = Flushed(msgs) /\ buffer' = NoBuffer
    <3>1. ms[c][i].text = msgs[c][i].text \o buffer[t] /\ buffer'[t] = <<>>
      BY <2>1, <1>1, FlushKeeps DEF NoBuffer
    <3>2. msgs[c][i].text \in Seq(Nat) /\ buffer[t] \in Seq(Nat)
      BY <1>1, BubbleIs, WaitingIsText DEF TabTypes
    <3>3. msgs[c][i].text \o buffer[t] \in Seq(Nat)
      BY <3>2, JoinIs
    <3> QED BY <3>1, <3>3
  <2>2. CASE ms = msgs /\ buffer' = buffer
    BY <2>2
  <2> QED BY <2>1, <2>2
<1>5. Inherits(t)
  <2> SUFFICES ASSUME NEW c \in Chats, NEW j \in DOMAIN msgs'[c], IsBubble(msgs'[c][j], t)
               PROVE  /\ j \in DOMAIN msgs[c] /\ IsBubble(msgs[c][j], t)
                      /\ msgs'[c][j].text \o buffer'[t] = msgs[c][j].text \o buffer[t]
    BY DEF Inherits
  <2>1. j \in DOMAIN ms[c] /\ IsBubble(ms[c][j], t) /\ msgs'[c][j].text = ms[c][j].text
    OBVIOUS
  <2>2. j \in DOMAIN msgs[c] /\ IsBubble(msgs[c][j], t)
    BY <2>1, <1>2 DEF SameBubbles
  <2> QED BY <2>1, <2>2, <1>4
<1>6. Started(t) => BubbleStays(t)
  BY <1>2 DEF BubbleStays, SameBubbles, TabInv, StartFits
<1> QED BY <1>3, <1>5, <1>6

---------------------------------------------------------------------------
LEMMA FrameKeeps == ASSUME TabInv, Frame PROVE KeepsTab
<1>0. TabTypes
  BY DEF TabInv
<1>1. msgs' = Flushed(msgs) /\ buffer' = NoBuffer /\ NoBuffer \in [Sends -> Seq(Nat \ {0})]
  BY DEF Frame, NoBuffer
<1>2. TabTypes'
  BY <1>0, <1>1, FlushKeeps DEF TabTypes, Frame, shellVars
<1>3. \A t \in Sends : RowGoes(t, turn'[t])
  BY DEF Frame, RowGoes, Started
<1>4. CtlFits'
  BY <1>3, CtlKept DEF Frame
<1>5. ASSUME NEW t \in Sends PROVE Rests(t)
  <2>1. msgs' \in [Chats -> Seq(MessageRows)]
    BY <1>2 DEF TabTypes
  <2>2. Inherits(t) /\ (Started(t) => BubbleStays(t)) /\ buffer'[t] \in {buffer[t], <<>>}
    BY <1>1, <1>2, <2>1, EndedRest
  <2> QED BY <1>2, <1>3, <2>2, ContinuedRests DEF Frame
<1> QED BY <1>2, <1>4, <1>5 DEF KeepsTab

LEMMA StoreKeeps == ASSUME TabInv, NEW u \in Sends, Store(u) PROVE KeepsTab
<1>0. TabTypes
  BY DEF TabInv
<1>1. /\ turn[u] \in TurnRows /\ Started(u)
      /\ turn'[u] = [turn[u] EXCEPT !.kept = TRUE] /\ \A t \in Sends \ {u} : turn'[t] = turn[t]
  BY <1>0 DEF Store, TabTypes, Started
<1>2. turn' \in [Sends -> TurnRows] /\ \A t \in Sends : RowGoes(t, turn'[t])
  <2>1. turn'[u] \in TurnRows /\ RowGoes(u, turn'[u])
    BY <1>1 DEF TurnRows, RowGoes, Started
  <2>2. \A t \in Sends \ {u} : RowGoes(t, turn'[t])
    BY <1>1 DEF RowGoes, Started
  <2> QED BY <1>0, <1>1, <2>1, <2>2 DEF Store, TabTypes
<1>3. stored' \in [Chats -> Seq(Sends)]
  <2>1. turn[u].chat \in Chats
    BY <1>1 DEF TabInv, StartFits
  <2>2. Append(stored[turn[u].chat], u) \in Seq(Sends)
    BY <1>0, <2>1 DEF TabTypes
  <2> QED BY <1>0, <2>2 DEF Store, TabTypes
<1>4. TabTypes'
  BY <1>0, <1>2, <1>3 DEF TabTypes, Store, storeVars, runtimeVars, shellVars
<1>5. CtlFits'
  BY <1>2, CtlKept DEF Store, runtimeVars
<1>6. ASSUME NEW t \in Sends PROVE Rests(t)
  <2>1. msgs' = msgs /\ buffer' = buffer /\ gen' = gen /\ runs' = runs /\ ctl' = ctl /\ known' = known
    BY DEF Store, storeVars, runtimeVars
  <2>2. \A c \in Chats : SameTexts(msgs'[c], msgs[c])
    BY <1>0, <2>1 DEF SameTexts, SameBubbles, TabTypes
  <2> QED BY <1>2, <1>4, <2>1, <2>2, SameRest, ContinuedRests
<1> QED BY <1>4, <1>5, <1>6 DEF KeepsTab

LEMMA ReadLoadKeeps == ASSUME TabInv, NEW l \in Loads, ReadLoad(l) \/ FailLoad(l) PROVE KeepsTab
<1>0. TabTypes
  BY DEF TabInv
<1>1. UNCHANGED <<storeVars, runtimeVars, shellVars, turn, stored>>
  BY DEF ReadLoad, FailLoad, storeVars
<1>2. load' \in [Loads -> LoadRows] /\ \A k \in Loads : load'[k].at # "none" => load'[k].chat \in Chats
  <2>1. load \in [Loads -> LoadRows] /\ load[l] \in LoadRows
    BY <1>0 DEF TabTypes
  <2>2. CASE ReadLoad(l)
    <3>1. load[l].chat \in Chats
      BY <1>0, <2>2 DEF ReadLoad, TabTypes
    <3>2. stored[load[l].chat] \in Seq(Sends)
      BY <1>0, <3>1 DEF TabTypes
    <3>3. load' = [load EXCEPT ![l] = [load[l] EXCEPT !.at = "read", !.rows = stored[load[l].chat]]]
      BY <2>1, <2>2 DEF ReadLoad
    <3>4. /\ load'[l] = [load[l] EXCEPT !.at = "read", !.rows = stored[load[l].chat]]
          /\ \A k \in Loads \ {l} : load'[k] = load[k]
      BY <2>1, <3>3
    <3>5. load'[l] \in LoadRows /\ load'[l].chat \in Chats
      BY <2>1, <3>1, <3>2, <3>4 DEF LoadRows
    <3> QED BY <1>0, <2>1, <3>3, <3>4, <3>5 DEF TabTypes
  <2>3. CASE FailLoad(l)
    <3>1. NoLoad \in LoadRows /\ NoLoad.at = "none"
      BY DEF NoLoad, LoadRows
    <3> QED BY <1>0, <2>1, <2>3, <3>1 DEF FailLoad, TabTypes
  <2> QED BY <2>2, <2>3
<1>3. TabTypes'
  BY <1>0, <1>1, <1>2 DEF TabTypes, storeVars, runtimeVars, shellVars
<1>4. \A t \in Sends : RowGoes(t, turn'[t])
  BY <1>1 DEF RowGoes, Started
<1>5. CtlFits'
  BY <1>1, <1>4, CtlKept DEF runtimeVars
<1>6. ASSUME NEW t \in Sends PROVE Rests(t)
  <2>1. msgs' = msgs /\ buffer' = buffer /\ gen' = gen /\ runs' = runs /\ ctl' = ctl /\ known' = known
    BY <1>1 DEF storeVars, runtimeVars
  <2>2. \A c \in Chats : SameTexts(msgs'[c], msgs[c])
    BY <1>0, <2>1 DEF SameTexts, SameBubbles, TabTypes
  <2> QED BY <1>3, <1>4, <2>1, <2>2, SameRest, ContinuedRests
<1> QED BY <1>3, <1>5, <1>6 DEF KeepsTab

LEMMA RowsAreTyped ==
    ASSUME NEW ts \in Seq(Sends)
    PROVE  RowsOf(ts) \in Seq(MessageRows) /\ \A i \in DOMAIN RowsOf(ts) : ~RowsOf(ts)[i].local
<1>1. Len(ts) \in Nat /\ <<0>> \in Seq(Nat) /\ <<>> \in Seq(Nat)
  OBVIOUS
<1>2. ASSUME NEW i \in 1 .. 2 * Len(ts)
      PROVE  RowsOf(ts)[i] \in MessageRows /\ ~RowsOf(ts)[i].local
  <2>1. (i + 1) \div 2 \in 1 .. Len(ts)
    BY <1>1
  <2>2. ts[(i + 1) \div 2] \in Sends
    BY <2>1
  <2> QED BY <1>1, <2>2 DEF RowsOf, Message, MessageRows
<1>3. RowsOf(ts) = [i \in 1 .. 2 * Len(ts) |-> RowsOf(ts)[i]]
  BY DEF RowsOf
<1>4. RowsOf(ts) \in [1 .. 2 * Len(ts) -> MessageRows] /\ 2 * Len(ts) \in Nat
  BY <1>1, <1>2, <1>3
<1>5. RowsOf(ts) \in Seq(MessageRows)
  BY <1>4
<1> QED BY <1>2, <1>3, <1>5

LEMMA ApplyLoadKeeps == ASSUME TabInv, NEW l \in Loads, ApplyLoad(l) PROVE KeepsTab
<1>0. TabTypes
  BY DEF TabInv
<1> DEFINE d == load[l].chat
<1>1. d \in Chats /\ load[l] \in LoadRows /\ load[l].rows \in Seq(Sends)
  BY <1>0 DEF ApplyLoad, TabTypes, LoadRows
<1>2. \/ ctl[d] = 0 /\ msgs' = [msgs EXCEPT ![d] = RowsOf(load[l].rows)]
      \/ msgs' = msgs
  BY DEF ApplyLoad, CanApply
<1>3. load' \in [Loads -> LoadRows] /\ \A k \in Loads : load'[k].at # "none" => load'[k].chat \in Chats
  <2>1. NoLoad \in LoadRows /\ NoLoad.at = "none"
    BY DEF NoLoad, LoadRows
  <2> QED BY <1>0, <2>1 DEF ApplyLoad, TabTypes
<1>4. msgs' \in [Chats -> Seq(MessageRows)]
  BY <1>0, <1>1, <1>2, RowsAreTyped DEF TabTypes
<1>5. TabTypes'
  BY <1>0, <1>3, <1>4 DEF ApplyLoad, TabTypes, runtimeVars, shellVars
<1>6. \A t \in Sends : RowGoes(t, turn'[t])
  BY DEF ApplyLoad, RowGoes, Started
<1>7. CtlFits'
  BY <1>6, CtlKept DEF ApplyLoad, runtimeVars
<1>8. ASSUME NEW t \in Sends PROVE Rests(t)
  <2>1. buffer' = buffer /\ gen' = gen /\ runs' = runs /\ ctl' = ctl /\ known' = known /\ turn' = turn
    BY DEF ApplyLoad, runtimeVars
  <2>2. CASE msgs' = msgs
    <3>1. \A c \in Chats : SameTexts(msgs'[c], msgs[c])
      BY <1>0, <2>2 DEF SameTexts, SameBubbles, TabTypes
    <3> QED BY <1>5, <1>6, <2>1, <3>1, SameRest, ContinuedRests
  <2>3. CASE ctl[d] = 0 /\ msgs' = [msgs EXCEPT ![d] = RowsOf(load[l].rows)]
    <3>1. \A c \in Chats : msgs'[c] = IF c = d THEN RowsOf(load[l].rows) ELSE msgs[c]
      BY <1>0, <2>3 DEF TabTypes
    <3>2. \A j \in DOMAIN RowsOf(load[l].rows) : ~IsBubble(RowsOf(load[l].rows)[j], t)
      BY <1>1, RowsAreTyped DEF IsBubble
    <3>3. Inherits(t)
      BY <2>1, <3>1, <3>2 DEF Inherits
    <3>4. Started(t) => BubbleStays(t)
      <4>1. Live(t)' /\ Started(t) => turn[t].chat # d /\ turn[t].chat \in Chats
        BY <2>1, <2>3 DEF Live, Current, TabInv, StartFits
      <4> QED BY <3>1, <4>1 DEF BubbleStays
    <3> QED BY <1>5, <1>6, <2>1, <3>3, <3>4, ContinuedRests
  <2> QED BY <1>2, <2>2, <2>3
<1> QED BY <1>5, <1>7, <1>8 DEF KeepsTab

---------------------------------------------------------------------------
\* Another session is shown.
LEMMA EnterIs ==
    ASSUME TabTypes, NEW c \in Chats, NEW g \in Nat, Enter(c, g, load)
    PROVE  /\ shown' = c /\ load' \in [Loads -> LoadRows]
           /\ \A k \in Loads : load'[k].at # "none" => load'[k].chat \in Chats
<1> DEFINE asked == [chat |-> c, gen |-> g, at |-> "asked", entry |-> TRUE, rows |-> <<>>]
<1>1. asked \in LoadRows /\ asked.chat \in Chats /\ NoLoad \in LoadRows /\ NoLoad.at = "none"
  BY DEF LoadRows, NoLoad
<1>2. CASE c = shown
  BY <1>2 DEF Enter, TabTypes
<1>3. CASE c # shown
  <2>1. PICK l \in Loads : load' = [k \in Loads |->
            IF k = l THEN asked ELSE IF load[k].entry THEN NoLoad ELSE load[k]]
    BY <1>3 DEF Enter
  <2> HIDE DEF asked
  <2> QED BY <1>1, <2>1 DEF Enter, TabTypes
<1> QED BY <1>2, <1>3

LEMMA GoBackKeeps == ASSUME TabInv, GoBack PROVE KeepsTab
<1>0. TabTypes
  BY DEF TabInv
<1>1. PICK c \in known \ {shown} : Enter(c, gen, load)
  BY DEF GoBack
<1>2. c \in Chats /\ c \in known /\ gen \in Nat
  BY <1>0 DEF TabTypes
<1>3. /\ shown' = c /\ load' \in [Loads -> LoadRows]
      /\ \A k \in Loads : load'[k].at # "none" => load'[k].chat \in Chats
  BY <1>0, <1>1, <1>2, EnterIs
<1>4. TabTypes'
  BY <1>0, <1>2, <1>3 DEF GoBack, TabTypes, runtimeVars, shellVars
<1>5. \A t \in Sends : RowGoes(t, turn'[t])
  BY DEF GoBack, RowGoes, Started
<1>6. CtlFits'
  BY <1>5, CtlKept DEF GoBack, runtimeVars
<1>7. ASSUME NEW t \in Sends PROVE Rests(t)
  <2>1. msgs' = msgs /\ buffer' = buffer /\ gen' = gen /\ runs' = runs /\ ctl' = ctl /\ known' = known
    BY DEF GoBack, runtimeVars
  <2>2. \A k \in Chats : SameTexts(msgs'[k], msgs[k])
    BY <1>0, <2>1 DEF SameTexts, SameBubbles, TabTypes
  <2> QED BY <1>4, <1>5, <2>1, <2>2, SameRest, ContinuedRests
<1> QED BY <1>4, <1>6, <1>7 DEF KeepsTab

\* A patch of the messages of one session.
LEMMA PatchIs ==
    ASSUME TabTypes, NEW c \in Chats, NEW ms, SameTexts(ms, msgs[c]), msgs' = [msgs EXCEPT ![c] = ms]
    PROVE  msgs' \in [Chats -> Seq(MessageRows)] /\ \A d \in Chats : SameTexts(msgs'[d], msgs[d])
<1>1. msgs \in [Chats -> Seq(MessageRows)] /\ ms \in Seq(MessageRows)
  BY DEF TabTypes, SameTexts, SameBubbles
<1>2. \A d \in Chats : msgs'[d] = IF d = c THEN ms ELSE msgs[d]
  BY <1>1
<1>3. \A d \in Chats : msgs[d] \in Seq(MessageRows)
  BY <1>1
<1> QED BY <1>1, <1>2, <1>3 DEF SameTexts, SameBubbles

LEMMA DoneKeeps == ASSUME TabInv, NEW u \in Sends, Done(u) PROVE KeepsTab
<1>0. TabTypes
  BY DEF TabInv
<1>1. Started(u) /\ turn' = [turn EXCEPT ![u].net = "done"] /\ turn[u].chat \in Chats
  BY DEF Done, Started, TabInv, StartFits
<1>2. turn' \in [Sends -> TurnRows] /\ \A t \in Sends : RowGoes(t, turn'[t])
  BY <1>1, MovedGoes DEF Nets
<1>3. msgs' \in [Chats -> Seq(MessageRows)] /\ \A c \in Chats : SameTexts(msgs'[c], msgs[c])
  <2>1. CASE msgs' = msgs
    BY <1>0, <2>1 DEF SameTexts, SameBubbles, TabTypes
  <2>2. CASE msgs' = [msgs EXCEPT ![turn[u].chat] = Stopped(msgs[turn[u].chat], u)]
    <3>1. msgs[turn[u].chat] \in Seq(MessageRows)
      BY <1>0, <1>1 DEF TabTypes
    <3>2. SameTexts(Stopped(msgs[turn[u].chat], u), msgs[turn[u].chat])
      BY <3>1, PatchesKeep
    <3> QED BY <1>0, <1>1, <2>2, <3>2, PatchIs
  <2> QED BY <2>1, <2>2 DEF Done
<1>4. load' \in [Loads -> LoadRows] /\ \A k \in Loads : load'[k].at # "none" => load'[k].chat \in Chats
  <2>1. CASE load' = load
    BY <1>0, <2>1 DEF TabTypes
  <2>2. CASE \E l \in Loads : load' = Asking(l, turn[u].chat, FALSE, turn[u].gen)
    <3> DEFINE asked == [chat |-> turn[u].chat, gen |-> turn[u].gen, at |-> "asked",
                         entry |-> FALSE, rows |-> <<>>]
    <3>1. turn[u] \in TurnRows
      BY <1>0 DEF TabTypes
    <3>2. asked \in LoadRows /\ asked.chat \in Chats
      BY <1>1, <3>1 DEF TurnRows, LoadRows
    <3>3. PICK l \in Loads : load' = [load EXCEPT ![l] = asked]
      BY <2>2 DEF Asking
    <3> HIDE DEF asked
    <3> QED BY <1>0, <3>2, <3>3 DEF TabTypes
  <2> QED BY <2>1, <2>2 DEF Done
<1>5. TabTypes'
  BY <1>0, <1>2, <1>3, <1>4 DEF Done, TabTypes, runtimeVars, shellVars
<1>6. CtlFits'
  BY <1>2, CtlKept DEF Done, runtimeVars
<1>7. ASSUME NEW t \in Sends PROVE Rests(t)
  <2>1. buffer' = buffer /\ gen' = gen /\ runs' = runs /\ ctl' = ctl /\ known' = known
    BY DEF Done, runtimeVars
  <2> QED BY <1>2, <1>3, <1>5, <2>1, SameRest, ContinuedRests
<1> QED BY <1>5, <1>6, <1>7 DEF KeepsTab

\* The finally clause, with what it leaves of the messages in ms.
LEMMA FinallyKeeps ==
    ASSUME TabInv, NEW u \in Sends, Started(u), Finally(u),
           msgs' \in [Chats -> Seq(MessageRows)], bubble' \in 0 .. SendBound,
           failed' \in [Chats -> 0 .. SendBound],
           \A t \in Sends : \A c \in Chats : \A j \in DOMAIN msgs'[c] : IsBubble(msgs'[c][j], t) =>
               /\ j \in DOMAIN Ended(u)[c] /\ IsBubble(Ended(u)[c][j], t)
               /\ msgs'[c][j].text = Ended(u)[c][j].text,
           \A t \in Sends : \A c \in Chats : \A i \in DOMAIN Ended(u)[c] :
               IsBubble(Ended(u)[c][i], t) => i \in DOMAIN msgs'[c] /\ IsBubble(msgs'[c][i], t)
    PROVE  KeepsTab
<1>0. TabTypes
  BY DEF TabInv
<1>1. turn' \in [Sends -> TurnRows] /\ \A t \in Sends : RowGoes(t, turn'[t])
  BY MovedGoes DEF Finally, Nets
<1>2. ctl' \in [Chats -> 0 .. SendBound] /\ \A c \in Chats : ctl'[c] \in {ctl[c], 0}
  <2>1. 0 \in 0 .. SendBound
    BY ClientBounds
  <2>2. ctl' = ctl \/ ctl' = [ctl EXCEPT ![turn[u].chat] = 0]
    BY DEF Finally
  <2>3. ctl \in [Chats -> 0 .. SendBound]
    BY <1>0 DEF TabTypes
  <2> QED BY <2>1, <2>2, <2>3
<1>3. NoBuffer \in [Sends -> Seq(Nat \ {0})]
  BY DEF NoBuffer
<1>4. TabTypes'
  BY <1>0, <1>1, <1>2, <1>3 DEF Finally, TabTypes
<1>5. CtlFits'
  BY <1>1, <1>2, CtlKept
<1>6. \/ Ended(u) = Flushed(msgs) /\ buffer' = NoBuffer
      \/ Ended(u) = msgs /\ buffer' = buffer
  BY DEF Finally, Ended
<1>7. Ended(u) \in [Chats -> Seq(MessageRows)]
  BY <1>0, <1>6, FlushKeeps DEF TabTypes
<1>8. ASSUME NEW t \in Sends PROVE Rests(t)
  <2>1. Inherits(t) /\ (Started(t) => BubbleStays(t)) /\ buffer'[t] \in {buffer[t], <<>>}
    BY <1>4, <1>6, <1>7, EndedRest
  <2>2. gen' = gen /\ runs' = runs /\ known' = known
    BY DEF Finally
  <2> QED BY <1>1, <1>2, <1>4, <2>1, <2>2, ContinuedRests
<1> QED BY <1>4, <1>5, <1>8 DEF KeepsTab

LEMMA EndedIs ==
    ASSUME TabInv, NEW u \in Sends
    PROVE  Ended(u) \in [Chats -> Seq(MessageRows)] /\ Left(u) \in 0 .. SendBound
<1>1. TabTypes
  BY DEF TabInv
<1>2. Flushed(msgs) \in [Chats -> Seq(MessageRows)]
  BY <1>1, FlushKeeps
<1>3. msgs \in [Chats -> Seq(MessageRows)] /\ bubble \in 0 .. SendBound
  BY <1>1 DEF TabTypes
<1>4. 0 \in 0 .. SendBound
  BY ClientBounds
<1>5. Ended(u) \in [Chats -> Seq(MessageRows)]
  BY <1>2, <1>3 DEF Ended
<1>6. Left(u) \in 0 .. SendBound
  BY <1>3, <1>4 DEF Left
<1> QED BY <1>5, <1>6

LEMMA CloseKeeps == ASSUME TabInv, NEW u \in Sends, Close(u) PROVE KeepsTab
<1>1. Started(u) /\ turn[u].chat \in Chats /\ TabTypes
  BY DEF Close, Started, TabInv, StartFits
<1>2. msgs' = Ended(u) /\ bubble' = Left(u) /\ Finally(u)
  BY DEF Close
<1>3. failed' \in [Chats -> 0 .. SendBound]
  BY <1>1, ClientBounds DEF Close, TabTypes
<1> QED BY <1>1, <1>2, <1>3, EndedIs, FinallyKeeps

LEMMA SettleKeeps == ASSUME TabInv, NEW u \in Sends, Settle(u) PROVE KeepsTab
<1>1. Started(u) /\ turn[u].chat \in Chats /\ TabTypes
  BY DEF Settle, Started, TabInv, StartFits
<1> DEFINE c == turn[u].chat
           ms == Stopped(Ended(u)[c], Left(u))
<1>2. Ended(u) \in [Chats -> Seq(MessageRows)] /\ Ended(u)[c] \in Seq(MessageRows)
  BY <1>1, EndedIs
<1>3. SameTexts(ms, Ended(u)[c])
  BY <1>2, PatchesKeep
<1>4. msgs' = [Ended(u) EXCEPT ![c] = ms]
  BY DEF Settle
<1> HIDE DEF ms
<1>5. \A d \in Chats : msgs'[d] = IF d = c THEN ms ELSE Ended(u)[d]
  BY <1>2, <1>4
<1>6. msgs' \in [Chats -> Seq(MessageRows)]
  BY <1>2, <1>3, <1>4 DEF SameTexts, SameBubbles
<1>7. bubble' \in 0 .. SendBound /\ failed' \in [Chats -> 0 .. SendBound] /\ Finally(u)
  BY <1>1, ClientBounds DEF Settle, TabTypes
<1>8. \A t \in Sends : \A d \in Chats :
          /\ DOMAIN msgs'[d] = DOMAIN Ended(u)[d]
          /\ \A i \in DOMAIN Ended(u)[d] : /\ IsBubble(msgs'[d][i], t) <=> IsBubble(Ended(u)[d][i], t)
                                           /\ msgs'[d][i].text = Ended(u)[d][i].text
  BY <1>3, <1>5 DEF SameTexts, SameBubbles
<1> QED BY <1>1, <1>6, <1>7, <1>8, FinallyKeeps

LEMMA FailKeeps == ASSUME TabInv, NEW u \in Sends, Fail(u) PROVE KeepsTab
<1>1. Started(u) /\ turn[u].chat \in Chats /\ TabTypes
  BY DEF Fail, Started, TabInv, StartFits
<1> DEFINE c == turn[u].chat
           old == Ended(u)[c]
           ms == IF c \notin known THEN old
                 ELSE IF Left(u) = 0 THEN Append(old, ErrorOf(u))
                 ELSE Errored(Stopped(old, Left(u)), Left(u))
<1>2. Ended(u) \in [Chats -> Seq(MessageRows)] /\ old \in Seq(MessageRows)
  BY <1>1, EndedIs
<1>3. msgs' = [Ended(u) EXCEPT ![c] = ms]
  BY DEF Fail
<1>4. /\ ms \in Seq(MessageRows)
      /\ \A t \in Sends : \A j \in DOMAIN ms : IsBubble(ms[j], t) =>
             j \in DOMAIN old /\ IsBubble(old[j], t) /\ ms[j].text = old[j].text
      /\ \A t \in Sends : \A i \in DOMAIN old : IsBubble(old[i], t) =>
             i \in DOMAIN ms /\ IsBubble(ms[i], t)
  <2> HIDE DEF old
  <2>1. CASE c \notin known
    BY <1>2, <2>1
  <2>2. CASE c \in known /\ Left(u) = 0
    <3>1. ErrorOf(u) \in MessageRows /\ \A t \in Sends : ~IsBubble(ErrorOf(u), t)
      <4> DEFINE m == Message(u, "error", TRUE, <<>>, FALSE)
      <4>1. m \in MessageRows /\ m.role = "error"
        BY DEF Message, MessageRows
      <4>2. ErrorOf(u) = [m EXCEPT !.error = TRUE]
        BY DEF ErrorOf
      <4> HIDE DEF m
      <4> QED BY <4>1, <4>2 DEF MessageRows, IsBubble
    <3>2. ms = Append(old, ErrorOf(u))
      BY <2>2
    <3>3. /\ ms \in Seq(MessageRows) /\ DOMAIN ms = 1 .. Len(old) + 1 /\ DOMAIN old = 1 .. Len(old)
          /\ Len(old) \in Nat /\ ms[Len(old) + 1] = ErrorOf(u)
          /\ \A i \in 1 .. Len(old) : ms[i] = old[i]
      <4> HIDE DEF ms
      <4> QED BY <1>2, <3>1, <3>2
    <3> HIDE DEF ms
    <3> QED BY <3>1, <3>3
  <2>3. CASE c \in known /\ Left(u) # 0
    <3>1. SameTexts(Stopped(old, Left(u)), old)
      BY <1>2, PatchesKeep
    <3>2. SameTexts(ms, Stopped(old, Left(u)))
      BY <2>3, <3>1, PatchesKeep DEF SameTexts, SameBubbles
    <3> HIDE DEF ms
    <3> QED BY <3>1, <3>2 DEF SameTexts, SameBubbles
  <2> QED BY <2>1, <2>2, <2>3
<1> HIDE DEF ms
<1>5. \A d \in Chats : msgs'[d] = IF d = c THEN ms ELSE Ended(u)[d]
  BY <1>2, <1>3
<1>6. msgs' \in [Chats -> Seq(MessageRows)]
  BY <1>2, <1>3, <1>4
<1>7. bubble' \in 0 .. SendBound /\ failed' \in [Chats -> 0 .. SendBound] /\ Finally(u)
  <2>1. u \in 0 .. SendBound /\ 0 \in 0 .. SendBound
    BY ClientBounds DEF Sends
  <2> QED BY <1>1, <2>1 DEF Fail, TabTypes
<1>8. \A t \in Sends : \A d \in Chats : \A j \in DOMAIN msgs'[d] : IsBubble(msgs'[d][j], t) =>
          /\ j \in DOMAIN Ended(u)[d] /\ IsBubble(Ended(u)[d][j], t)
          /\ msgs'[d][j].text = Ended(u)[d][j].text
  BY <1>4, <1>5
<1>9. \A t \in Sends : \A d \in Chats : \A i \in DOMAIN Ended(u)[d] :
          IsBubble(Ended(u)[d][i], t) => i \in DOMAIN msgs'[d] /\ IsBubble(msgs'[d][i], t)
  BY <1>4, <1>5
<1> QED BY <1>1, <1>6, <1>7, <1>8, <1>9, FinallyKeeps

---------------------------------------------------------------------------
LEMMA StopKeeps == ASSUME TabInv, Stop PROVE KeepsTab
<1>0. TabTypes /\ shown \in Chats
  BY DEF TabInv, TabTypes
<1>1. turn' \in [Sends -> TurnRows] /\ \A t \in Sends : RowGoes(t, turn'[t])
  BY <1>0, AbortedGoes DEF Stop
<1>2. msgs' \in [Chats -> Seq(MessageRows)] /\ \A c \in Chats : SameTexts(msgs'[c], msgs[c])
  <2>1. msgs[shown] \in Seq(MessageRows)
    BY <1>0 DEF TabTypes
  <2>2. SameTexts(Stopped(msgs[shown], bubble), msgs[shown])
    BY <2>1, PatchesKeep
  <2>3. msgs' = [msgs EXCEPT ![shown] = Stopped(msgs[shown], bubble)]
    BY DEF Stop
  <2> QED BY <1>0, <2>2, <2>3, PatchIs
<1>3. ctl' \in [Chats -> 0 .. SendBound] /\ ctl'[shown] = 0 /\ \A c \in Chats : ctl'[c] \in {ctl[c], 0}
  <2>1. 0 \in 0 .. SendBound
    BY ClientBounds
  <2> QED BY <1>0, <2>1 DEF Stop, TabTypes
<1>4. \A t \in Sends : buffer'[t] = IF turn[t].chat = shown THEN <<>> ELSE buffer[t]
  BY DEF Stop
<1>5. buffer' \in [Sends -> Seq(Nat \ {0})]
  BY <1>0, <1>4 DEF Stop, TabTypes
<1>6. TabTypes'
  <2>1. 0 \in 0 .. SendBound
    BY ClientBounds
  <2> QED BY <1>0, <1>1, <1>2, <1>3, <1>5, <2>1 DEF Stop, TabTypes
<1>7. CtlFits'
  BY <1>1, <1>3, CtlKept
<1>8. ASSUME NEW t \in Sends PROVE Rests(t)
  <2>1. TextsStay(t) /\ (Started(t) => BubbleStays(t)) /\ (buffer'[t] = buffer[t] => Inherits(t))
    BY <1>2, <1>6, SameRest
  <2>2. turn[t].chat = shown => Inherits(t)
    <3>1. turn[t].chat = shown => ~Current(t)'
      BY <1>1, <1>3 DEF Current, RowGoes
    <3> QED BY <1>4, <2>1, <3>1 DEF Inherits, TextsStay
  <2>3. Inherits(t) /\ buffer'[t] \in {buffer[t], <<>>}
    BY <1>4, <2>1, <2>2
  <2>4. gen' = gen /\ runs' = runs /\ known' = known
    BY DEF Stop
  <2> QED BY <1>1, <1>3, <1>6, <2>1, <2>3, <2>4, ContinuedRests
<1> QED BY <1>6, <1>7, <1>8 DEF KeepsTab

\* A delta: the next of its turn, for the turn the tab listens to.
LEMMA DeltaKeeps == ASSUME TabInv, NEW u \in Sends, Delta(u) PROVE KeepsTab
<1>0. TabTypes
  BY DEF TabInv
<1> DEFINE n == turn[u].sent
<1>1. /\ Started(u) /\ turn[u] \in TurnRows /\ n \in Nat
      /\ turn'[u] = [turn[u] EXCEPT !.sent = n + 1] /\ \A t \in Sends \ {u} : turn'[t] = turn[t]
  BY <1>0 DEF Delta, TabTypes, TurnRows, Started
<1>2. turn'[u] \in TurnRows /\ turn'[u].sent = n + 1 /\ turn'[u].chat = turn[u].chat
      /\ turn'[u].gen = turn[u].gen /\ turn'[u].net = turn[u].net
  BY <1>1 DEF TurnRows
<1>3. turn' \in [Sends -> TurnRows]
  BY <1>0, <1>1, <1>2 DEF Delta, TabTypes
<1>4. buffer' = buffer \/ (Current(u) /\ buffer' = [buffer EXCEPT ![u] = Append(buffer[u], n + 1)])
  BY DEF Delta
<1>5. buffer[u] \in Seq(Nat \ {0}) /\ Append(buffer[u], n + 1) \in Seq(Nat \ {0})
  <2>1. buffer[u] \in Seq(Nat \ {0})
    BY <1>0 DEF TabTypes
  <2>2. n + 1 \in Nat \ {0}
    BY <1>1
  <2> QED BY <2>1, <2>2
<1>6. buffer' \in [Sends -> Seq(Nat \ {0})] /\ \A t \in Sends \ {u} : buffer'[t] = buffer[t]
  BY <1>0, <1>4, <1>5 DEF TabTypes
<1>7. msgs' = msgs /\ gen' = gen /\ runs' = runs /\ ctl' = ctl /\ known' = known
  BY DEF Delta, storeVars
<1>8. TabTypes'
  BY <1>0, <1>3, <1>6 DEF Delta, TabTypes, storeVars, shellVars
<1>9. CtlFits'
  <2>1. \A t \in Sends : turn'[t].net = turn[t].net
    BY <1>1, <1>2
  <2>2. \A c \in Chats : ctl[c] # 0 => ctl[c] \in Sends
    BY <1>0, ClientBounds DEF TabTypes, Sends
  <2> QED BY <1>7, <2>1, <2>2 DEF TabInv, CtlFits, Started
<1>10. \A c \in Chats : SameTexts(msgs'[c], msgs[c])
  BY <1>0, <1>7 DEF SameTexts, SameBubbles, TabTypes
<1>11. ASSUME NEW t \in Sends \ {u} PROVE Rests(t)
  <2>1. RowGoes(t, turn'[t])
    BY <1>1 DEF RowGoes, Started
  <2> QED BY <1>6, <1>7, <1>8, <1>10, <2>1, SameRest, ContinuedRests
<1>12. Current(u)' <=> Current(u)
  BY <1>2, <1>7 DEF Current
<1>13. StartFits(u) /\ TextFits(u) /\ LiveFits(u)
  BY DEF TabInv
<1>14. CASE ~Current(u)
  <2>1. buffer' = buffer
    BY <1>4, <1>14
  <2>2. Goes(u)
    BY <1>1, <1>2, <1>7, <1>12, <1>13, <1>14 DEF Goes, StartFits, Started
  <2>3. Inherits(u)
    BY <1>8, <1>10, <2>1, SameRest
  <2>4. Stays(u)
    BY <1>12, <1>14 DEF Stays, Live
  <2>5. Rests(u)
    BY <2>1, <2>2, <2>3, <2>4 DEF Rests
  <2> QED BY <1>8, <1>9, <1>11, <2>5 DEF KeepsTab
<1>15. CASE Current(u)
  <2>1. buffer'[u] = Append(buffer[u], n + 1)
    BY <1>0, <1>15 DEF Delta, TabTypes
  <2>2. StartFits(u)'
    BY <1>1, <1>2, <1>7, <1>13 DEF StartFits, Started
  <2>3. TextFits(u)'
    <3> SUFFICES ASSUME NEW c \in Chats, NEW i \in DOMAIN msgs[c], IsBubble(msgs[c][i], u)
                 PROVE  /\ Started(u)' /\ turn'[u].chat = c
                        /\ InOrder(msgs[c][i].text \o buffer'[u], turn'[u].sent)
                        /\ UpTo(msgs[c][i].text \o buffer'[u], turn'[u].sent)
      BY <1>7 DEF TextFits
    <3>1. /\ turn[u].chat = c /\ InOrder(msgs[c][i].text \o buffer[u], n)
          /\ UpTo(msgs[c][i].text \o buffer[u], n)
      BY <1>13, <1>15 DEF TextFits
    <3>2. msgs[c][i].text \in Seq(Nat) /\ buffer[u] \in Seq(Nat)
      BY <1>0, <1>5, BubbleIs, WaitingIsText
    <3> QED BY <1>1, <1>2, <2>1, <3>1, <3>2, NextInOrder DEF Started
  <2>4. LiveFits(u)'
    BY <1>2, <1>7, <1>12, <1>13 DEF LiveFits, Live
  <2> QED BY <1>8, <1>9, <1>11, <1>15, <2>2, <2>3, <2>4 DEF KeepsTab, TabFits
<1> QED BY <1>14, <1>15

\* The whole text takes the place of what is shown.
LEMMA ReplaceKeeps == ASSUME TabInv, NEW u \in Sends, Replace(u) PROVE KeepsTab
<1>0. TabTypes
  BY DEF TabInv
<1> DEFINE c == turn[u].chat
<1>1. /\ Started(u) /\ turn[u] \in TurnRows /\ c \in Chats /\ turn[u].net = "open"
      /\ turn'[u] = [turn[u] EXCEPT !.net = "replaced"] /\ \A t \in Sends \ {u} : turn'[t] = turn[t]
  BY <1>0 DEF Replace, TabTypes, Started, TabInv, StartFits
<1>2. turn'[u] \in TurnRows /\ turn'[u].sent = turn[u].sent /\ turn'[u].chat = c
      /\ turn'[u].gen = turn[u].gen /\ turn'[u].net = "replaced" /\ turn[u].sent \in Nat
  BY <1>1 DEF TurnRows, Nets
<1>3. turn' \in [Sends -> TurnRows] /\ \A t \in Sends : RowGoes(t, turn'[t])
  <2>1. RowGoes(u, turn'[u])
    BY <1>1, <1>2 DEF RowGoes, Started
  <2>2. \A t \in Sends \ {u} : RowGoes(t, turn'[t])
    BY <1>1 DEF RowGoes, Started
  <2> QED BY <1>0, <1>1, <1>2, <2>1, <2>2 DEF Replace, TabTypes
<1>4. buffer' = buffer /\ gen' = gen /\ runs' = runs /\ ctl' = ctl /\ known' = known
  BY DEF Replace, runtimeVars
<1>5. msgs[c] \in Seq(MessageRows) /\ SameBubbles(Rewritten(msgs[c], u), msgs[c])
  BY <1>0, <1>1, PatchesKeep DEF TabTypes
<1>6. \/ msgs' = msgs /\ ~Current(u)
      \/ msgs' = [msgs EXCEPT ![c] = Rewritten(msgs[c], u)] /\ Current(u)
  BY DEF Replace
<1>7. msgs' \in [Chats -> Seq(MessageRows)]
  BY <1>0, <1>5, <1>6 DEF TabTypes, SameBubbles
<1>8. TabTypes'
  BY <1>0, <1>3, <1>7 DEF Replace, TabTypes, runtimeVars, shellVars
<1>9. CtlFits'
  BY <1>3, <1>4, CtlKept
<1>10. CASE msgs' = msgs
  <2>1. \A d \in Chats : SameTexts(msgs'[d], msgs[d])
    BY <1>0, <1>10 DEF SameTexts, SameBubbles, TabTypes
  <2>2. \A t \in Sends : Rests(t)
    BY <1>3, <1>4, <1>8, <2>1, SameRest, ContinuedRests
  <2> QED BY <1>8, <1>9, <2>2 DEF KeepsTab
<1>11. CASE msgs' = [msgs EXCEPT ![c] = Rewritten(msgs[c], u)] /\ Current(u)
  <2>1. \A d \in Chats : msgs'[d] = IF d = c THEN Rewritten(msgs[c], u) ELSE msgs[d]
    BY <1>0, <1>11 DEF TabTypes
  <2>2. \A d \in Chats : SameBubbles(msgs'[d], msgs[d])
    BY <1>0, <1>5, <2>1 DEF SameBubbles, TabTypes
  <2>3. \A i \in DOMAIN msgs[c] :
            Rewritten(msgs[c], u)[i].text = IF IsBubble(msgs[c][i], u) THEN <<0>> ELSE msgs[c][i].text
    <3> SUFFICES ASSUME NEW i \in DOMAIN msgs[c]
                 PROVE  Rewritten(msgs[c], u)[i].text =
                            IF IsBubble(msgs[c][i], u) THEN <<0>> ELSE msgs[c][i].text
      OBVIOUS
    <3>1. msgs[c][i] \in MessageRows
      BY <1>5
    <3> QED BY <3>1 DEF Rewritten, MessageRows
  <2>4. ASSUME NEW t \in Sends \ {u} PROVE Rests(t)
    <3>1. \A d \in Chats : \A i \in DOMAIN msgs[d] : IsBubble(msgs[d][i], t)
                                => msgs'[d][i].text = msgs[d][i].text
      BY <2>1, <2>3 DEF IsBubble
    <3>2. Inherits(t) /\ (Started(t) => BubbleStays(t))
      BY <1>4, <2>2, <3>1 DEF Inherits, BubbleStays, SameBubbles, TabInv, StartFits
    <3> QED BY <1>3, <1>4, <1>8, <3>2, ContinuedRests
  <2>5. StartFits(u) /\ TextFits(u) /\ LiveFits(u)
    BY DEF TabInv
  <2>6. StartFits(u)'
    BY <1>1, <1>2, <1>4, <2>5 DEF StartFits, Started
  <2>7. TextFits(u)'
    <3> SUFFICES ASSUME NEW d \in Chats, NEW i \in DOMAIN msgs'[d], IsBubble(msgs'[d][i], u)
                 PROVE  /\ Started(u)' /\ turn'[u].chat = d
                        /\ InOrder(msgs'[d][i].text \o buffer'[u], turn'[u].sent)
                        /\ UpTo(msgs'[d][i].text \o buffer'[u], turn'[u].sent)
      BY DEF TextFits, IsBubble
    <3>1. i \in DOMAIN msgs[d] /\ IsBubble(msgs[d][i], u)
      BY <2>2 DEF SameBubbles
    <3>2. /\ c = d /\ InOrder(msgs[d][i].text \o buffer[u], turn[u].sent)
          /\ UpTo(msgs[d][i].text \o buffer[u], turn[u].sent)
      BY <1>11, <2>5, <3>1 DEF TextFits
    <3>3. msgs'[d][i].text = <<0>>
      BY <2>1, <2>3, <3>1, <3>2
    <3>4. msgs[d][i].text \in Seq(Nat) /\ buffer[u] \in Seq(Nat \ {0})
      BY <1>0, <3>1, BubbleIs DEF TabTypes
    <3> QED BY <1>2, <1>4, <3>2, <3>3, <3>4, RewrittenInOrder DEF Started
  <2>8. LiveFits(u)'
    <3>1. Current(u)' <=> Current(u)
      BY <1>2, <1>4 DEF Current
    <3>2. Live(u)' => Live(u)
      BY <1>1, <1>2, <1>4, <3>1 DEF Live
    <3> QED BY <1>1, <1>2, <2>2, <2>5, <3>2 DEF LiveFits, SameBubbles, IsBubble
  <2> QED BY <1>8, <1>9, <1>11, <2>4, <2>6, <2>7, <2>8 DEF KeepsTab, TabFits
<1> QED BY <1>6, <1>10, <1>11

---------------------------------------------------------------------------
\* A turn begins, after messages that were there.
FromList(ms, old) ==
    /\ ms \in Seq(MessageRows)
    /\ \A j \in DOMAIN ms : \A t \in Sends : IsBubble(ms[j], t) =>
          \E i \in DOMAIN old : IsBubble(old[i], t) /\ ms[j].text = old[i].text

LEMMA BeginKeeps ==
    ASSUME TabInv, NEW u \in Sends, NEW ms, FromList(ms, msgs[shown]), Begin(u, shown, ms)
    PROVE  KeepsTab
<1> DEFINE c == shown
           row == [chat |-> c, gen |-> gen + 1, net |-> "open", sent |-> 0, kept |-> FALSE]
<1>0. TabTypes /\ c \in Chats /\ c \in known /\ gen \in Nat
  BY DEF TabInv, TabTypes
<1>1. ~Started(u) /\ turn[u] = Unsent /\ buffer[u] = <<>> /\ turn[u].chat # c
  <2>1. ~Started(u) /\ turn[u] = Unsent /\ buffer[u] = <<>>
    BY DEF Begin, Started, TabInv, StartFits
  <2> QED BY <1>0, <2>1, ChatsAssumption DEF Unsent
<1>2. row \in TurnRows
  BY <1>0 DEF TurnRows, Nets
<1>3. /\ turn' \in [Sends -> TurnRows] /\ turn'[u] = row
      /\ \A t \in Sends \ {u} : RowGoes(t, turn'[t])
  <2>1. Aborted({c}) \in [Sends -> TurnRows] /\ \A t \in Sends : RowGoes(t, Aborted({c})[t])
    BY <1>0, AbortedGoes
  <2>2. turn' = [Aborted({c}) EXCEPT ![u] = row]
    BY DEF Begin
  <2> HIDE DEF row
  <2> QED BY <1>2, <2>1, <2>2
<1>4. /\ buffer' \in [Sends -> Seq(Nat \ {0})] /\ buffer'[u] = <<>>
      /\ \A t \in Sends : buffer'[t] \in {buffer[t], <<>>}
  BY <1>0, <1>1 DEF Begin, TabTypes
<1>5. /\ Bubble(u) \in MessageRows /\ Bubble(u).text = <<>> /\ IsBubble(Bubble(u), u)
      /\ \A t \in Sends \ {u} : ~IsBubble(Bubble(u), t)
  BY DEF Bubble, Message, MessageRows, IsBubble
<1> DEFINE new == Append(ms, Bubble(u))
<1>6. /\ new \in Seq(MessageRows) /\ DOMAIN new = 1 .. Len(ms) + 1 /\ DOMAIN ms = 1 .. Len(ms)
      /\ Len(ms) \in Nat /\ new[Len(ms) + 1] = Bubble(u)
      /\ \A j \in 1 .. Len(ms) : new[j] = ms[j]
  BY <1>5 DEF FromList
<1>7. msgs' = [msgs EXCEPT ![c] = new]
  BY DEF Begin
<1> HIDE DEF new
<1>8. msgs' \in [Chats -> Seq(MessageRows)] /\ \A d \in Chats : msgs'[d] = IF d = c THEN new ELSE msgs[d]
  BY <1>0, <1>6, <1>7 DEF TabTypes
<1>9. u \in 0 .. SendBound /\ u # 0
  BY ClientBounds DEF Sends
<1>10. TabTypes'
  <2>1. /\ gen' = gen + 1 /\ runs' = c /\ ctl' = [ctl EXCEPT ![c] = u] /\ bubble' = u
        /\ UNCHANGED <<known, used, shown, failed, stored, load>>
    BY DEF Begin
  <2>2. gen' \in Nat /\ ctl' \in [Chats -> 0 .. SendBound]
    <3>1. gen \in Nat /\ ctl \in [Chats -> 0 .. SendBound]
      BY <1>0 DEF TabTypes
    <3>2. gen' = gen + 1 /\ ctl' = [ctl EXCEPT ![c] = u]
      BY <2>1
    <3>3. gen' \in Nat
      BY <3>1, <3>2
    <3>4. ctl' \in [Chats -> 0 .. SendBound]
      BY <1>9, <3>1, <3>2
    <3> QED BY <3>3, <3>4
  <2> HIDE DEF row
  <2> QED BY <1>0, <1>3, <1>4, <1>8, <1>9, <2>1, <2>2 DEF TabTypes
<1>11. CtlFits'
  <2> SUFFICES ASSUME NEW d \in Chats, ctl'[d] # 0 PROVE turn'[ctl'[d]].net # "unsent"
    BY DEF CtlFits, Started
  <2>1. ctl'[d] = IF d = c THEN u ELSE ctl[d]
    BY <1>0 DEF Begin, TabTypes
  <2>2. CASE ctl'[d] = u
    BY <1>3, <2>2
  <2>3. CASE ctl'[d] # u
    <3>0. ctl'[d] = ctl[d]
      BY <2>1, <2>3
    <3>1. ctl'[d] = ctl[d] /\ ctl[d] \in Sends /\ Started(ctl[d])
      BY <3>0, CtlIs
    <3> QED BY <1>3, <2>3, <3>1 DEF RowGoes
  <2> QED BY <2>2, <2>3
<1>12. ASSUME NEW t \in Sends \ {u} PROVE Rests(t)
  <2>1. TextsStay(t)
    <3> SUFFICES ASSUME NEW d \in Chats, NEW j \in DOMAIN msgs'[d], IsBubble(msgs'[d][j], t)
                 PROVE \E i \in DOMAIN msgs[d] : /\ IsBubble(msgs[d][i], t)
                                                 /\ msgs'[d][j].text = msgs[d][i].text
      BY DEF TextsStay
    <3>1. CASE d # c
      BY <1>8, <3>1
    <3>2. CASE d = c
      <4>1. msgs'[d] = new
        BY <1>8, <3>2
      <4>2. j \in 1 .. Len(ms) /\ new[j] = ms[j]
        BY <1>5, <1>6, <4>1
      <4> QED BY <1>6, <3>2, <4>1, <4>2 DEF FromList
    <3> QED BY <3>1, <3>2
  <2>2. gen' = gen + 1
    BY DEF Begin
  <2> QED BY <1>3, <1>4, <1>10, <2>1, <2>2, SilencedRests
<1>13. TabFits(u)'
  <2>1. /\ turn'[u].net = "open" /\ turn'[u].chat = c /\ turn'[u].gen = gen + 1 /\ turn'[u].sent = 0
        /\ gen' = gen + 1
    BY <1>3 DEF Begin
  <2>2. StartFits(u)'
    BY <1>0, <2>1 DEF StartFits, Started
  <2>3. TextFits(u)'
    <3> SUFFICES ASSUME NEW d \in Chats, NEW j \in DOMAIN msgs'[d], IsBubble(msgs'[d][j], u)
                 PROVE  /\ Started(u)' /\ turn'[u].chat = d
                        /\ InOrder(msgs'[d][j].text \o buffer'[u], turn'[u].sent)
                        /\ UpTo(msgs'[d][j].text \o buffer'[u], turn'[u].sent)
      BY DEF TextFits, IsBubble
    <3>1. \A e \in Chats : \A i \in DOMAIN msgs[e] : ~IsBubble(msgs[e][i], u)
      BY <1>1 DEF TabInv, TextFits
    <3>2. d = c
      BY <1>8, <3>1
    <3>3. msgs'[d] = new
      BY <1>8, <3>2
    <3>4. j \notin 1 .. Len(ms)
      BY <1>0, <1>6, <3>1, <3>3 DEF FromList
    <3>5. msgs'[d][j].text = <<>>
      BY <1>5, <1>6, <3>3, <3>4
    <3>6. <<>> \o <<>> = <<>> /\ InOrder(<<>>, 0) /\ UpTo(<<>>, 0)
      BY DEF InOrder, UpTo
    <3> QED BY <1>4, <2>1, <3>2, <3>5, <3>6 DEF Started
  <2>4. LiveFits(u)'
    <3>1. Len(ms) + 1 \in DOMAIN msgs'[c] /\ IsBubble(msgs'[c][Len(ms) + 1], u)
      BY <1>0, <1>5, <1>6, <1>8
    <3> QED BY <2>1, <3>1 DEF LiveFits, IsBubble
  <2> QED BY <2>2, <2>3, <2>4 DEF TabFits
<1> QED BY <1>1, <1>10, <1>11, <1>12, <1>13 DEF KeepsTab

LEMMA SendKeeps == ASSUME TabInv, Send PROVE KeepsTab
<1>1. PICK u \in Sends : Begin(u, shown, Append(msgs[shown], Question(u)))
  BY DEF Send
<1>2. msgs[shown] \in Seq(MessageRows)
  BY DEF TabInv, TabTypes
<1>3. Question(u) \in MessageRows /\ \A t \in Sends : ~IsBubble(Question(u), t)
  BY DEF Question, Message, MessageRows, IsBubble
<1>4. FromList(Append(msgs[shown], Question(u)), msgs[shown])
  <2> DEFINE old == msgs[shown]
             ms == Append(old, Question(u))
  <2>1. /\ ms \in Seq(MessageRows) /\ DOMAIN ms = 1 .. Len(old) + 1 /\ DOMAIN old = 1 .. Len(old)
        /\ Len(old) \in Nat /\ ms[Len(old) + 1] = Question(u)
        /\ \A j \in 1 .. Len(old) : ms[j] = old[j]
    BY <1>2, <1>3
  <2> HIDE DEF ms, old
  <2>2. FromList(ms, old)
    BY <1>3, <2>1 DEF FromList
  <2> QED BY <2>2 DEF ms, old
<1> QED BY <1>1, <1>4, BeginKeeps

LEMMA RetryKeeps == ASSUME TabInv, Retry PROVE KeepsTab
<1> DEFINE old == msgs[shown]
           ms == IF old = <<>> THEN <<>> ELSE Front(old)
<1>1. PICK u \in Sends : Begin(u, shown, ms)
  BY DEF Retry
<1>2. old \in Seq(MessageRows)
  BY DEF TabInv, TabTypes
<1>3. FromList(ms, old)
  <2> HIDE DEF old
  <2>1. CASE old = <<>>
    BY <2>1 DEF FromList
  <2>2. CASE old # <<>>
    <3>1. ms = SubSeq(old, 1, Len(old) - 1) /\ Len(old) \in Nat /\ Len(old) >= 1
          /\ DOMAIN old = 1 .. Len(old)
      BY <1>2, <2>2 DEF Front
    <3>2. /\ ms \in Seq(MessageRows) /\ DOMAIN ms = 1 .. Len(old) - 1
          /\ \A j \in 1 .. Len(old) - 1 : ms[j] = old[j]
      <4> HIDE DEF ms
      <4> QED BY <1>2, <3>1
    <3> HIDE DEF ms
    <3> QED BY <3>1, <3>2 DEF FromList
  <2> QED BY <2>1, <2>2
<1> QED BY <1>1, <1>3, BeginKeeps

---------------------------------------------------------------------------
LEMMA AbortAllIs ==
    ASSUME TabInv, AbortAll
    PROVE  /\ gen' \in Nat /\ runs' \in Chats \cup {NoChat} /\ ctl' \in [Chats -> 0 .. SendBound]
           /\ buffer' \in [Sends -> Seq(Nat \ {0})] /\ turn' \in [Sends -> TurnRows] /\ CtlFits'
           /\ \A t \in Sends : RowGoes(t, turn'[t]) /\ buffer'[t] \in {buffer[t], <<>>}
<1>0. TabTypes
  BY DEF TabInv
<1>1. turn' \in [Sends -> TurnRows] /\ \A t \in Sends : RowGoes(t, turn'[t])
  BY AbortedGoes DEF AbortAll
<1>2. ctl' = [c \in Chats |-> 0] /\ 0 \in 0 .. SendBound
  BY ClientBounds DEF AbortAll
<1>3. CtlFits'
  BY <1>1, <1>2, CtlKept
<1> QED BY <1>0, <1>1, <1>2, <1>3 DEF AbortAll, TabTypes, NoBuffer

LEMMA AbortAllRests ==
    ASSUME TabInv, TabTypes', AbortAll, NEW t \in Sends, TextsStay(t)
    PROVE  Rests(t)
<1>1. RowGoes(t, turn'[t]) /\ buffer'[t] \in {buffer[t], <<>>} /\ gen' = gen + 1
  BY AbortAllIs DEF AbortAll
<1> QED BY <1>1, SilencedRests

LEMMA StillKeeps ==
    ASSUME TabTypes, msgs' = AllStill(msgs)
    PROVE  msgs' \in [Chats -> Seq(MessageRows)] /\ \A c \in Chats : SameTexts(msgs'[c], msgs[c])
<1> SUFFICES ASSUME NEW c \in Chats PROVE SameTexts(msgs'[c], msgs[c])
  BY DEF AllStill, SameTexts, SameBubbles
<1>1. msgs[c] \in Seq(MessageRows)
  BY DEF TabTypes
<1>2. msgs'[c] = [i \in DOMAIN msgs[c] |-> [msgs[c][i] EXCEPT !.streaming = FALSE]]
  BY DEF AllStill
<1>3. ASSUME NEW i \in DOMAIN msgs[c]
      PROVE  /\ msgs'[c][i] \in MessageRows /\ msgs'[c][i].text = msgs[c][i].text
             /\ \A t \in Sends : IsBubble(msgs'[c][i], t) <=> IsBubble(msgs[c][i], t)
  <2> DEFINE m == msgs[c][i]
  <2>1. m \in MessageRows
    BY <1>1
  <2>2. msgs'[c][i] = [m EXCEPT !.streaming = FALSE]
    BY <1>2
  <2> HIDE DEF m
  <2> QED BY <2>1, <2>2 DEF MessageRows, IsBubble, m
<1>4. msgs'[c] = [i \in DOMAIN msgs[c] |-> msgs'[c][i]]
  BY <1>2
<1>5. msgs'[c] \in Seq(MessageRows) /\ DOMAIN msgs'[c] = DOMAIN msgs[c]
  BY <1>1, <1>3, <1>4, ListIs
<1> QED BY <1>3, <1>5 DEF SameTexts, SameBubbles

LEMMA NewChatKeeps == ASSUME TabInv, NewChat PROVE KeepsTab
<1>0. TabTypes
  BY DEF TabInv
<1>1. PICK c \in Chats \ used :
        /\ used' = used \cup {c} /\ \E gone \in SUBSET Blank : known' = (known \ gone) \cup {c}
        /\ Enter(c, gen + 1, load)
  BY DEF NewChat
<1>2. AbortAll /\ msgs' = AllStill(msgs) /\ bubble' = 0 /\ UNCHANGED <<failed, stored>>
  BY DEF NewChat
<1>3. gen + 1 \in Nat /\ 0 \in 0 .. SendBound
  BY <1>0, ClientBounds DEF TabTypes
<1>4. /\ shown' = c /\ load' \in [Loads -> LoadRows]
      /\ \A k \in Loads : load'[k].at # "none" => load'[k].chat \in Chats
  BY <1>0, <1>1, <1>3, EnterIs
<1>5. msgs' \in [Chats -> Seq(MessageRows)] /\ \A d \in Chats : SameTexts(msgs'[d], msgs[d])
  BY <1>0, <1>2, StillKeeps
<1>6. known' \subseteq used' /\ used' \subseteq Chats /\ shown' \in known' /\ Initial \in used'
  BY <1>0, <1>1, <1>4 DEF TabTypes
<1>7. TabTypes'
  BY <1>0, <1>2, <1>3, <1>4, <1>5, <1>6, AbortAllIs DEF TabTypes
<1>8. \A t \in Sends : Rests(t)
  BY <1>2, <1>5, <1>7, SameRest, AbortAllRests
<1> QED BY <1>2, <1>7, <1>8, AbortAllIs DEF KeepsTab

LEMMA SelectKeeps == ASSUME TabInv, Select PROVE KeepsTab
<1>0. TabTypes
  BY DEF TabInv
<1>1. PICK c \in known \ {shown} : Enter(c, gen + 1, load)
  BY DEF Select
<1>2. AbortAll /\ msgs' = AllStill(msgs) /\ bubble' = 0 /\ UNCHANGED <<known, used, failed, stored>>
  BY DEF Select
<1>3. gen + 1 \in Nat /\ 0 \in 0 .. SendBound /\ c \in Chats /\ c \in known
  <2>1. SendBound \in Nat
    BY ClientBounds
  <2>2. gen \in Nat /\ known \subseteq Chats
    BY <1>0 DEF TabTypes
  <2> QED BY <2>1, <2>2
<1>4. /\ shown' = c /\ load' \in [Loads -> LoadRows]
      /\ \A k \in Loads : load'[k].at # "none" => load'[k].chat \in Chats
  BY <1>0, <1>1, <1>3, EnterIs
<1>5. msgs' \in [Chats -> Seq(MessageRows)] /\ \A d \in Chats : SameTexts(msgs'[d], msgs[d])
  BY <1>0, <1>2, StillKeeps
<1>6. TabTypes'
  BY <1>0, <1>2, <1>3, <1>4, <1>5, AbortAllIs DEF TabTypes
<1>7. \A t \in Sends : Rests(t)
  BY <1>2, <1>5, <1>6, SameRest, AbortAllRests
<1> QED BY <1>2, <1>6, <1>7, AbortAllIs DEF KeepsTab

LEMMA DeleteKeeps == ASSUME TabInv, Delete PROVE KeepsTab
<1>0. TabTypes
  BY DEF TabInv
<1>1. PICK c \in known :
          /\ IF c = shown THEN AbortAll ELSE UNCHANGED <<turn, ctl, buffer, gen, runs>>
          /\ known' = IF known = {c} THEN {Initial} ELSE known \ {c}
          /\ \E next \in known' : (c # shown => next = shown) /\ Enter(next, gen', load)
          /\ msgs' = [msgs EXCEPT ![c] = <<>>]
          /\ failed' = [failed EXCEPT ![c] = 0]
          /\ stored' \in {stored, [stored EXCEPT ![c] = <<>>]}
  BY DEF Delete
<1>2. c \in Chats /\ 0 \in 0 .. SendBound /\ bubble' = bubble /\ used' = used
      /\ known' \subseteq used /\ used \subseteq Chats
  <2>1. 0 \in 0 .. SendBound
    BY ClientBounds
  <2>2. bubble' = bubble /\ used' = used
    BY DEF Delete, shellVars
  <2>3. c \in Chats /\ used \subseteq Chats /\ known \subseteq used /\ Initial \in used
    BY <1>0 DEF TabTypes
  <2> QED BY <1>1, <2>1, <2>2, <2>3
<1>3. PICK next \in known' : Enter(next, gen', load)
  BY <1>1
<1>4. /\ gen' \in Nat /\ runs' \in Chats \cup {NoChat} /\ ctl' \in [Chats -> 0 .. SendBound]
      /\ buffer' \in [Sends -> Seq(Nat \ {0})] /\ turn' \in [Sends -> TurnRows] /\ CtlFits'
      /\ \A t \in Sends : RowGoes(t, turn'[t]) /\ buffer'[t] \in {buffer[t], <<>>}
  <2>1. CASE c = shown
    BY <1>1, <2>1, AbortAllIs
  <2>2. CASE c # shown
    <3>1. UNCHANGED <<turn, ctl, buffer, gen, runs>>
      BY <1>1, <2>2
    <3>2. \A t \in Sends : RowGoes(t, turn'[t])
      BY <3>1 DEF RowGoes, Started
    <3>3. CtlFits'
      BY <3>1, <3>2, CtlKept
    <3> QED BY <1>0, <3>1, <3>2, <3>3 DEF TabTypes
  <2> QED BY <2>1, <2>2
<1>5. /\ shown' = next /\ load' \in [Loads -> LoadRows]
      /\ \A k \in Loads : load'[k].at # "none" => load'[k].chat \in Chats
  BY <1>0, <1>2, <1>3, <1>4, EnterIs
<1>6. /\ msgs' \in [Chats -> Seq(MessageRows)]
      /\ \A d \in Chats : msgs'[d] = IF d = c THEN <<>> ELSE msgs[d]
  BY <1>0, <1>1, <1>2 DEF TabTypes
<1>7. stored' \in [Chats -> Seq(Sends)] /\ failed' \in [Chats -> 0 .. SendBound]
  <2>1. stored \in [Chats -> Seq(Sends)] /\ <<>> \in Seq(Sends)
    BY <1>0 DEF TabTypes
  <2>2. stored' \in [Chats -> Seq(Sends)]
    BY <1>1, <2>1
  <2>3. failed' \in [Chats -> 0 .. SendBound]
    BY <1>0, <1>1, <1>2 DEF TabTypes
  <2> QED BY <2>2, <2>3
<1>8. TabTypes'
  BY <1>0, <1>2, <1>3, <1>4, <1>5, <1>6, <1>7 DEF TabTypes
<1>9. ASSUME NEW t \in Sends PROVE Rests(t)
  <2>1. TextsStay(t)
    BY <1>6 DEF TextsStay
  <2>2. CASE c = shown
    BY <1>1, <1>8, <2>1, <2>2, AbortAllRests
  <2>3. CASE c # shown
    <3>1. UNCHANGED <<turn, ctl, buffer, gen, runs>>
      BY <1>1, <2>3
    <3>2. known' = known \ {c}
      BY <1>0, <1>1, <2>3 DEF TabTypes
    <3>3. Inherits(t)
      BY <2>1, <3>1 DEF TextsStay, Inherits
    <3>4. Started(t) => BubbleStays(t)
      BY <1>6, <3>1, <3>2 DEF BubbleStays, Live, TabInv, StartFits
    <3> QED BY <1>4, <1>8, <3>1, <3>2, <3>3, <3>4, ContinuedRests
  <2> QED BY <2>2, <2>3
<1> QED BY <1>4, <1>8, <1>9 DEF KeepsTab

LEMMA ReloadKeeps == ASSUME TabInv, Reload PROVE KeepsTab
<1>0. TabTypes
  BY DEF TabInv
<1>1. /\ 0 \in 0 .. SendBound /\ 0 \in Nat
      /\ msgs' = [c \in Chats |-> <<>>] /\ gen' = 0 /\ runs' = NoChat /\ ctl' = [c \in Chats |-> 0]
      /\ buffer' = [t \in Sends |-> <<>>] /\ bubble' = 0
      /\ UNCHANGED <<known, used, shown, failed, stored>>
  <2>1. 0 \in 0 .. SendBound /\ 0 \in Nat
    BY ClientBounds
  <2> QED BY <2>1 DEF Reload, NoBuffer
<1>2. ASSUME NEW t \in Sends
      PROVE  /\ turn[t] \in TurnRows /\ turn'[t] \in TurnRows
             /\ ~Started(t) => turn'[t] = turn[t] /\ turn[t].gen = 0
             /\ Started(t) => Started(t)' /\ turn'[t].chat = turn[t].chat /\ turn'[t].chat \in Chats
             /\ turn'[t].sent = turn[t].sent /\ turn'[t].sent \in Nat
             /\ turn'[t].gen = 0 /\ turn'[t].net \in {"unsent", "settled"}
  <2>1. turn[t] \in TurnRows /\ (~Started(t) => turn[t].gen = 0) /\ (Started(t) => turn[t].chat \in Chats)
    BY <1>0 DEF TabInv, TabTypes, StartFits, Unsent
  <2>2. CASE ~Started(t)
    <3>1. turn'[t] = turn[t]
      BY <2>2 DEF Reload, Started
    <3> QED BY <2>1, <2>2, <3>1 DEF TurnRows, Started
  <2>3. CASE Started(t)
    <3>1. turn'[t] = [turn[t] EXCEPT !.net = "settled", !.gen = 0]
      BY <2>3 DEF Reload, Started
    <3> QED BY <1>1, <2>1, <2>3, <3>1 DEF TurnRows, Nets, Started
  <2> QED BY <2>2, <2>3
<1>3. turn' \in [Sends -> TurnRows]
  <2>1. turn' = [t \in Sends |-> turn'[t]]
    BY DEF Reload
  <2> QED BY <1>2, <2>1
<1>4. load' \in [Loads -> LoadRows] /\ \A k \in Loads : load'[k].at # "none" => load'[k].chat \in Chats
  <2> DEFINE asked == [chat |-> shown, gen |-> 0, at |-> "asked", entry |-> TRUE, rows |-> <<>>]
  <2>1. asked \in LoadRows /\ asked.chat \in Chats /\ NoLoad \in LoadRows /\ NoLoad.at = "none"
    BY <1>0 DEF LoadRows, NoLoad, TabTypes
  <2>2. load' = [l \in Loads |-> IF l = 1 THEN asked ELSE NoLoad]
    BY DEF Reload
  <2> HIDE DEF asked
  <2> QED BY <2>1, <2>2
<1>5. TabTypes'
  BY <1>0, <1>1, <1>3, <1>4 DEF TabTypes
<1>6. CtlFits'
  BY <1>1 DEF CtlFits
<1>7. ASSUME NEW t \in Sends PROVE Rests(t)
  <2>1. Started(t) => ~Current(t)'
    BY <1>1, <1>2, ChatsAssumption DEF Current
  <2>2. Goes(t)
    BY <1>1, <1>2, <2>1 DEF Goes
  <2>3. Inherits(t) /\ buffer'[t] \in {buffer[t], <<>>}
    BY <1>1 DEF Inherits
  <2>4. Stays(t)
    BY <1>2 DEF Stays, Live
  <2> QED BY <2>2, <2>3, <2>4 DEF Rests
<1> QED BY <1>5, <1>6, <1>7 DEF KeepsTab

---------------------------------------------------------------------------
LEMMA TabStarts == ClientInit => TabInv
<1> SUFFICES ASSUME ClientInit PROVE TabInv
  OBVIOUS
<1>1. 0 \in 0 .. SendBound /\ 0 \in Nat
  BY ClientBounds
<1>2. Unsent \in TurnRows /\ Unsent.net = "unsent" /\ Unsent.gen = 0
  BY DEF Unsent, TurnRows, Nets
<1>3. NoLoad \in LoadRows /\ NoLoad.at = "none"
  BY DEF NoLoad, LoadRows
<1>4. TabTypes
  BY <1>1, <1>2, <1>3, ChatsAssumption DEF ClientInit, TabTypes, NoBuffer
<1>5. CtlFits
  BY DEF ClientInit, CtlFits
<1>6. \A t \in Sends : StartFits(t) /\ TextFits(t) /\ LiveFits(t)
  BY <1>1, <1>2 DEF ClientInit, StartFits, TextFits, LiveFits, Live, Started, NoBuffer
<1> QED BY <1>4, <1>5, <1>6 DEF TabInv

LEMMA StepsKeep == ASSUME TabInv, ClientNext PROVE KeepsTab
<1>1. ASSUME NEW t \in Sends, Delta(t) \/ Replace(t) \/ Store(t) \/ Done(t)
      PROVE KeepsTab
  BY <1>1, DeltaKeeps, ReplaceKeeps, StoreKeeps, DoneKeeps
<1>2. ASSUME NEW t \in Sends, Close(t) \/ Fail(t) \/ Settle(t)
      PROVE KeepsTab
  BY <1>2, CloseKeeps, FailKeeps, SettleKeeps
<1>3. ASSUME NEW l \in Loads, ReadLoad(l) \/ ApplyLoad(l) \/ FailLoad(l)
      PROVE KeepsTab
  BY <1>3, ReadLoadKeeps, ApplyLoadKeeps
<1>4. ASSUME Send \/ Retry \/ Frame \/ Stop \/ NewChat \/ Select \/ GoBack \/ Delete \/ Reload
      PROVE KeepsTab
  BY <1>4, SendKeeps, RetryKeeps, FrameKeeps, StopKeeps, NewChatKeeps, SelectKeeps, GoBackKeeps,
     DeleteKeeps, ReloadKeeps
<1> QED BY <1>1, <1>2, <1>3, <1>4 DEF ClientNext

\* Every step keeps the invariant, and brings nothing to whom nobody listens.
LEMMA TabInductive == TabInv /\ [ClientNext]_clientVars => TabInv' /\ [StaleIsSilentStep]_clientVars
<1> SUFFICES ASSUME TabInv, [ClientNext]_clientVars PROVE TabInv' /\ [StaleIsSilentStep]_clientVars
  OBVIOUS
<1>1. CASE UNCHANGED clientVars
  BY <1>1 DEF clientVars, storeVars, runtimeVars, shellVars, TabInv, TabTypes, CtlFits, Started,
     StartFits, TextFits, LiveFits, Live, Current
<1>2. CASE ClientNext
  <2>1. KeepsTab /\ TabTypes
    BY <1>2, StepsKeep DEF TabInv
  <2>2. \A t \in Sends : TabFits(t)'
    BY <2>1, RestFits DEF KeepsTab
  <2>3. TabInv'
    BY <2>1, <2>2 DEF KeepsTab, TabInv, TabFits
  <2>4. StaleIsSilentStep
    BY <2>1, RestIsSilent DEF KeepsTab, StaleIsSilentStep, Started
  <2> QED BY <2>3, <2>4
<1> QED BY <1>1, <1>2

\* The tab shows what it was sent, in order, and the turn it listens to has a place.
THEOREM TabIsInOrderHolds == ClientSpec => []TabIsInOrder
<1>1. TabInv => TabIsInOrder
  <2> SUFFICES ASSUME TabInv PROVE TabIsInOrder
    OBVIOUS
  <2>1. ClientTypeOK
    <3>1. \A c \in Chats : \A i \in DOMAIN msgs[c] :
             msgs[c][i].of \in Sends /\ msgs[c][i].role \in {"user", "assistant", "error"}
      BY BubbleIs DEF TabInv, MessageRows
    <3>2. \A t \in Sends : turn[t].net \in Nets
      BY DEF TabInv, TabTypes, TurnRows
    <3> QED BY <3>1, <3>2 DEF TabInv, TabTypes, ClientTypeOK, Nets
  <2>2. TextIsInOrder
    <3> SUFFICES ASSUME NEW c \in Chats, NEW i \in DOMAIN msgs[c],
                        msgs[c][i].role = "assistant", msgs[c][i].local
                 PROVE  LET x == msgs[c][i].text
                            t == msgs[c][i].of IN
                        /\ turn[t].chat = c
                        /\ \A k \in DOMAIN x : x[k] <= turn[t].sent
                        /\ \A k \in 2 .. Len(x) : x[k - 1] # 0 => x[k] = x[k - 1] + 1
                        /\ x # <<>> => x[1] \in {0, 1}
      BY DEF TextIsInOrder
    <3> DEFINE t == msgs[c][i].of
               x == msgs[c][i].text
    <3>1. t \in Sends /\ x \in Seq(Nat) /\ IsBubble(msgs[c][i], t)
      BY BubbleIs DEF TabInv, MessageRows, IsBubble
    <3>2. turn[t].chat = c /\ InOrder(x \o buffer[t], turn[t].sent)
      BY <3>1 DEF TabInv, TextFits
    <3>3. buffer[t] \in Seq(Nat) /\ turn[t].sent \in Nat
      BY <3>1, WaitingIsText DEF TabInv, TabTypes, TurnRows
    <3>4. InOrder(x, turn[t].sent) /\ DOMAIN x = 1 .. Len(x)
      BY <3>1, <3>2, <3>3, ShownInOrder
    <3> QED BY <3>2, <3>4 DEF InOrder
  <2>3. LiveBubbleStays
    BY DEF TabInv, LiveFits, Live, LiveBubbleStays
  <2> QED BY <2>1, <2>2, <2>3 DEF TabIsInOrder
<1> QED BY <1>1, TabStarts, TabInductive, PTL DEF ClientSpec

\* Callbacks of a turn that the tab has left show nothing of it.
THEOREM TabIsSilentHolds == ClientSpec => TabIsSilent
  BY TabStarts, TabInductive, PTL DEF ClientSpec, TabIsSilent
=============================================================================
