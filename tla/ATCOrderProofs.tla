---------------------------- MODULE ATCOrderProofs ----------------------------
(***************************************************************************)
(* The ground controller handles the pilot's packets in the order they     *)
(* were given and none of them twice (InOrderOnce of ATCComms), for every  *)
(* set of menu options, every bound and any origin ids.                    *)
(*                                                                         *)
(* What has been handled says nothing about what will be.  The invariant   *)
(* therefore orders everything on its way: what is handled comes before    *)
(* what is in the server's input, that before what waits in the backlog,   *)
(* that before what is in the handoff buffer, and that before what the     *)
(* pilot will report next.                                                 *)
(***************************************************************************)
EXTENDS ATCCommsProofs

\* A packet the pilot ordered, other than a handshake.
Cmd(p) == p.type \notin {"HANDSHAKE", "ACK"}

\* Chunk d may follow chunk c.
Later(c, d) ==
    Cmd(c.pkt) /\ Cmd(d.pkt) =>
        \/ c.pkt.seq < d.pkt.seq
        \/ c.part = "header" /\ d = Server!Payload(c.pkt)

Sorted(s) == \A i, j \in DOMAIN s : i < j => Later(s[i], s[j])

\* The chunks numbered above lo and up to hi, and those of no command.
Between(lo, hi) ==
    {c \in Server!Chunks :
        /\ c.part = "payload" => Server!HasPayload(c.pkt)
        /\ Cmd(c.pkt) => lo < c.pkt.seq /\ c.pkt.seq <= hi}

Lines(lo, hi) == {s \in Seq(Between(lo, hi)) : Sorted(s)}
Waiting(lo, hi) == [link : {"open", "closed", "broken"}, chunks : Lines(lo, hi)]
After(c) == {d \in Server!Chunks : Later(c, d)}

\* The packets of ATCComms are numbered.
LEMMA Numbered ==
    ASSUME NEW p \in Packets
    PROVE  p.seq \in Nat
<1>1. MaxSent \in Nat
  BY CommsAssumption
<1>2. \A c \in Commands : c.seq \in Nat /\ Buffered(c).seq \in Nat
  BY <1>1 DEF Commands, Command, Buffered
<1>3. QED
  BY <1>1, <1>2 DEF Packets, Heartbeat, Handshake

\* A sequence of which every element is in a set is one over it.
LEMMA SeqOver ==
    ASSUME NEW S, NEW T, NEW s \in Seq(S), \A i \in DOMAIN s : s[i] \in T
    PROVE  s \in Seq(T)
OBVIOUS

\* What follows the first chunk of a line is a line after it.
LEMMA LineTail ==
    ASSUME NEW lo, NEW hi, NEW s \in Lines(lo, hi), s # <<>>
    PROVE  /\ Tail(s) \in Lines(lo, hi) /\ Head(s) \in Between(lo, hi)
           /\ Tail(s) \in Seq(After(Head(s)))
<1>1. /\ s \in Seq(Between(lo, hi)) /\ Sorted(s)
      /\ Len(s) \in Nat \ {0} /\ DOMAIN s = 1 .. Len(s)
      /\ Head(s) = s[1] /\ Head(s) \in Between(lo, hi)
      /\ Tail(s) \in Seq(Between(lo, hi)) /\ Len(Tail(s)) = Len(s) - 1
      /\ DOMAIN Tail(s) = 1 .. Len(s) - 1
      /\ \A i \in 1 .. Len(s) - 1 : Tail(s)[i] = s[i + 1]
  BY DEF Lines
<1>2. \A i \in 1 .. Len(s) - 1 : i + 1 \in DOMAIN s /\ 1 < i + 1 /\ 1 \in DOMAIN s
  BY <1>1
<1>3. Sorted(Tail(s))
  <2> SUFFICES ASSUME NEW i \in DOMAIN Tail(s), NEW j \in DOMAIN Tail(s), i < j
               PROVE  Later(Tail(s)[i], Tail(s)[j])
    BY DEF Sorted
  <2>1. i + 1 \in DOMAIN s /\ j + 1 \in DOMAIN s /\ i + 1 < j + 1
    BY <1>1, <1>2
  <2>2. QED
    BY <1>1, <2>1 DEF Sorted
<1>4. \A i \in DOMAIN Tail(s) : Tail(s)[i] \in After(Head(s))
  <2> SUFFICES ASSUME NEW i \in DOMAIN Tail(s) PROVE Tail(s)[i] \in After(Head(s))
    OBVIOUS
  <2>1. Later(s[1], s[i + 1]) /\ s[i + 1] \in Between(lo, hi)
    BY <1>1, <1>2 DEF Sorted
  <2>2. QED
    BY <1>1, <2>1 DEF After, Between
<1>5. Tail(s) \in Seq(After(Head(s)))
  BY <1>1, <1>4, SeqOver
<1>6. QED
  BY <1>1, <1>3, <1>5 DEF Lines

\* So is what a loss of the path leaves of it.
LEMMA LinePrefix ==
    ASSUME NEW lo, NEW hi, NEW s \in Lines(lo, hi), NEW t \in Prefixes(s)
    PROVE  t \in Lines(lo, hi)
<1>1. PICK n \in 0 .. Len(s) : t = SubSeq(s, 1, n)
  BY DEF Prefixes
<1>2. /\ s \in Seq(Between(lo, hi)) /\ Sorted(s) /\ Len(s) \in Nat
      /\ DOMAIN s = 1 .. Len(s)
      /\ t \in Seq(Between(lo, hi)) /\ DOMAIN t = 1 .. n
      /\ \A i \in 1 .. n : t[i] = s[i] /\ i \in DOMAIN s
  BY <1>1 DEF Lines
<1>3. Sorted(t)
  BY <1>2 DEF Sorted
<1>4. QED
  BY <1>2, <1>3 DEF Lines

\* A line between bounds is one between wider bounds.
LEMMA LineWiden ==
    ASSUME NEW lo \in Nat, NEW hi \in Nat, NEW lo2 \in Nat, NEW hi2 \in Nat,
           lo2 <= lo, hi <= hi2
    PROVE  /\ Between(lo, hi) \subseteq Between(lo2, hi2)
           /\ Lines(lo, hi) \subseteq Lines(lo2, hi2)
           /\ Waiting(lo, hi) \subseteq Waiting(lo2, hi2)
<1>1. Between(lo, hi) \subseteq Between(lo2, hi2)
  BY Numbered DEF Between, Server!Chunks
<1>2. Lines(lo, hi) \subseteq Lines(lo2, hi2)
  BY <1>1, SeqMonotone DEF Lines
<1>3. QED
  BY <1>1, <1>2 DEF Waiting

\* Two lines make one if every chunk of the second may follow those of the
\* first.
LEMMA LineConcat ==
    ASSUME NEW lo, NEW hi, NEW s \in Lines(lo, hi), NEW t \in Lines(lo, hi),
           \A i \in DOMAIN s : \A j \in DOMAIN t : Later(s[i], t[j])
    PROVE  s \o t \in Lines(lo, hi)
<1> DEFINE m == Len(s)
<1>1. /\ s \in Seq(Between(lo, hi)) /\ t \in Seq(Between(lo, hi))
      /\ Sorted(s) /\ Sorted(t) /\ m \in Nat /\ Len(t) \in Nat
      /\ DOMAIN s = 1 .. m /\ DOMAIN t = 1 .. Len(t)
      /\ s \o t \in Seq(Between(lo, hi)) /\ DOMAIN (s \o t) = 1 .. m + Len(t)
      /\ \A i \in 1 .. m : (s \o t)[i] = s[i] /\ s[i] \in Between(lo, hi)
      /\ \A i \in m + 1 .. m + Len(t) : (s \o t)[i] = t[i - m] /\ i - m \in DOMAIN t
  BY DEF Lines
<1>2. Sorted(s \o t)
  <2> SUFFICES ASSUME NEW i \in 1 .. m + Len(t), NEW j \in 1 .. m + Len(t), i < j
               PROVE  Later((s \o t)[i], (s \o t)[j])
    BY <1>1 DEF Sorted
  <2>1. CASE j <= m
    BY <1>1, <2>1 DEF Sorted
  <2>2. CASE i > m
    <3>1. i - m < j - m /\ i - m \in DOMAIN t /\ j - m \in DOMAIN t
      BY <1>1, <2>2
    <3>2. Later(t[i - m], t[j - m])
      BY <1>1, <3>1 DEF Sorted
    <3>3. (s \o t)[i] = t[i - m] /\ (s \o t)[j] = t[j - m]
      BY <1>1, <2>2
    <3>4. QED
      BY <3>2, <3>3
  <2>3. CASE i <= m /\ j > m
    BY <1>1, <2>3
  <2>4. QED
    BY <1>1, <2>1, <2>2, <2>3
<1>3. QED
  BY <1>1, <1>2 DEF Lines

\* A packet is written as a line, and goes behind a line of earlier ones.
LEMMA LineSend ==
    ASSUME NEW lo \in Nat, NEW mid \in Nat, NEW hi \in Nat, lo <= mid, mid <= hi,
           NEW p \in Packets, Cmd(p) => mid < p.seq /\ p.seq <= hi
    PROVE  /\ Chunks(p) \in Lines(mid, hi)
           /\ \A s \in Lines(lo, mid) : s \o Chunks(p) \in Lines(lo, hi)
           /\ \A c \in Between(lo, mid) : Chunks(p) \in Seq(After(c))
<1>1. /\ Server!Header(p) \in Between(mid, hi)
      /\ Server!HasPayload(p) => Server!Payload(p) \in Between(mid, hi)
      /\ Later(Server!Header(p), Server!Payload(p))
  BY DEF Between, Server!Chunks, Server!Header, Server!Payload, Later
<1>2. \/ Chunks(p) = <<Server!Header(p)>>
      \/ Chunks(p) = <<Server!Header(p), Server!Payload(p)>> /\ Server!HasPayload(p)
  BY DEF Chunks
<1>3. Chunks(p) \in Lines(mid, hi)
  <2>1. Chunks(p) \in Seq(Between(mid, hi))
    <3>1. ASSUME NEW S, NEW c \in S, NEW d \in S
          PROVE  <<c>> \in Seq(S) /\ <<c, d>> \in Seq(S)
      OBVIOUS
    <3>2. CASE Chunks(p) = <<Server!Header(p)>>
      BY <1>1, <3>1, <3>2
    <3>3. CASE Chunks(p) # <<Server!Header(p)>>
      BY <1>1, <1>2, <3>1, <3>3
    <3>4. QED
      BY <3>2, <3>3
  <2>2. Sorted(Chunks(p))
    <3>1. CASE Chunks(p) = <<Server!Header(p)>>
      <4>1. DOMAIN <<Server!Header(p)>> = {1}
        OBVIOUS
      <4>2. QED
        BY <3>1, <4>1 DEF Sorted
    <3>2. CASE Chunks(p) = <<Server!Header(p), Server!Payload(p)>>
      <4>1. \A c, d : /\ DOMAIN <<c, d>> = {1, 2}
                      /\ <<c, d>>[1] = c /\ <<c, d>>[2] = d
        OBVIOUS
      <4>2. QED
        BY <1>1, <3>2, <4>1 DEF Sorted
    <3>3. QED
      BY <1>2, <3>1, <3>2
  <2>3. QED
    BY <2>1, <2>2 DEF Lines
<1>4. \A c \in Between(lo, mid), d \in Between(mid, hi) :
         Later(c, d) /\ d \in Server!Chunks
  <2> SUFFICES ASSUME NEW c \in Between(lo, mid), NEW d \in Between(mid, hi)
               PROVE  Later(c, d) /\ d \in Server!Chunks
    OBVIOUS
  <2>1. c.pkt.seq \in Nat /\ d.pkt.seq \in Nat
    BY Numbered DEF Between, Server!Chunks
  <2>2. QED
    BY <2>1 DEF Between, Later
<1>5. ASSUME NEW s \in Lines(lo, mid) PROVE s \o Chunks(p) \in Lines(lo, hi)
  <2>1. s \in Lines(lo, hi) /\ Chunks(p) \in Lines(lo, hi)
    BY <1>3, LineWiden
  <2>2. /\ \A i \in DOMAIN s : s[i] \in Between(lo, mid)
        /\ \A j \in DOMAIN Chunks(p) : Chunks(p)[j] \in Between(mid, hi)
    BY <1>3 DEF Lines
  <2>3. \A i \in DOMAIN s : \A j \in DOMAIN Chunks(p) : Later(s[i], Chunks(p)[j])
    BY <1>4, <2>2
  <2>4. QED
    BY <2>1, <2>3, LineConcat
<1>6. ASSUME NEW c \in Between(lo, mid) PROVE Chunks(p) \in Seq(After(c))
  <2>1. Between(mid, hi) \subseteq After(c)
    BY <1>4 DEF After
  <2>2. QED
    BY <1>3, <2>1, SeqMonotone DEF Lines
<1>7. QED
  BY <1>3, <1>5, <1>6

-----------------------------------------------------------------------------
(* The invariant.                                                          *)

Named == {p \in Packets : p.type # "ACK"}

\* x bounds what is handled, y what is in the server's input, z what is in
\* the backlog.
Ordered(x, y, z) ==
    /\ x <= y /\ y <= z /\ z <= Len(sent)
    /\ \A i \in DOMAIN handled : Cmd(handled[i]) => handled[i].seq <= x
    /\ inbox \in Lines(x, y)
    /\ pc = "payload" => /\ Server!Header(held) \in Between(x, y)
                         /\ inbox \in Seq(After(Server!Header(held)))
    /\ backlog \in Seq(Waiting(y, z))
    /\ \A i \in DOMAIN buffer : z < buffer[i].seq /\ buffer[i].seq <= Len(sent)

OInv ==
    /\ sent \in Seq(MenuOptions \cup {"handshake"})
    /\ buffer \in Seq(Packets)
    /\ handled \in Seq(Named)
    /\ InOrderOnce
    /\ \E x, y, z \in Nat : Ordered(x, y, z)

\* A packet beyond all that was handled can be handled in its turn.
LEMMA HandledAppend ==
    ASSUME OInv, NEW x \in Nat, NEW p \in Named,
           \A i \in DOMAIN handled : Cmd(handled[i]) => handled[i].seq <= x,
           Cmd(p) => x < p.seq,
           handled' = Append(handled, p)
    PROVE  /\ handled' \in Seq(Named) /\ InOrderOnce'
           /\ \A w \in Nat : x <= w /\ (Cmd(p) => p.seq <= w) =>
                 \A i \in DOMAIN handled' : Cmd(handled'[i]) => handled'[i].seq <= w
<1> DEFINE n == Len(handled) + 1
<1>1. /\ handled \in Seq(Named) /\ Len(handled) \in Nat /\ DOMAIN handled = 1 .. Len(handled)
      /\ handled' \in Seq(Named) /\ DOMAIN handled' = 1 .. n
      /\ handled'[n] = p /\ \A i \in 1 .. Len(handled) : handled'[i] = handled[i]
  BY DEF OInv
<1>2. /\ p.seq \in Nat
      /\ \A i \in DOMAIN handled' : /\ handled'[i].seq \in Nat
                                    /\ handled'[i].type # "ACK"
  BY <1>1, Numbered DEF Named
<1>3. InOrderOnce'
  <2> SUFFICES ASSUME NEW i \in DOMAIN handled', NEW j \in DOMAIN handled', i < j,
                      handled'[i].type # "HANDSHAKE", handled'[j].type # "HANDSHAKE"
               PROVE  handled'[i].seq < handled'[j].seq
    BY DEF InOrderOnce
  <2>1. i \in 1 .. Len(handled) /\ Cmd(handled'[i]) /\ Cmd(handled'[j])
    BY <1>1, <1>2 DEF Cmd
  <2>2. CASE j = n
    BY <1>1, <1>2, <2>1, <2>2
  <2>3. CASE j # n
    <3>1. j \in 1 .. Len(handled)
      BY <1>1, <2>3
    <3>2. QED
      BY <1>1, <2>1, <3>1 DEF OInv, InOrderOnce
  <2>4. QED
    BY <2>2, <2>3
<1>4. ASSUME NEW w \in Nat, x <= w, Cmd(p) => p.seq <= w,
             NEW i \in DOMAIN handled', Cmd(handled'[i])
      PROVE  handled'[i].seq <= w
  <2>1. CASE i = n
    BY <1>1, <1>4, <2>1
  <2>2. CASE i # n
    <3>1. i \in 1 .. Len(handled)
      BY <1>1, <2>2
    <3>2. handled[i].seq <= x /\ handled[i].seq \in Nat
      BY <1>1, <1>2, <1>4, <3>1
    <3>3. QED
      BY <1>1, <1>4, <3>1, <3>2
  <2>3. QED
    BY <2>1, <2>2
<1>5. QED
  BY <1>1, <1>3, <1>4

-----------------------------------------------------------------------------
(* The steps of the ground and of the network.                             *)

\* Handling a packet keeps the order.
LEMMA HandleOrdered ==
    ASSUME OInv, NEW p \in Server!Arriving, ServerHandles(p)
    PROVE  OInv'
<1>1. PICK x \in Nat, y \in Nat, z \in Nat : Ordered(x, y, z)
  BY DEF OInv
<1>2. /\ HandleShape(p) /\ Replies
      /\ handled' = IF p.type = "ACK" THEN handled ELSE Append(handled, p)
      /\ UNCHANGED <<sent, buffer, backlog>>
  BY HandleEffect DEF ServerHandles, Replies, clientSide
<1>3. /\ inbox \in Lines(x, y) /\ inbox # <<>> /\ p = Head(inbox).pkt
      /\ Tail(inbox) \in Lines(x, y) /\ Head(inbox) \in Between(x, y)
      /\ Tail(inbox) \in Seq(After(Head(inbox)))
  BY <1>1, <1>2, LineTail DEF HandleShape, Ordered
<1>4. /\ p \in Packets /\ p.seq \in Nat /\ Head(inbox).part \in {"header", "payload"}
      /\ Cmd(p) => x < p.seq /\ p.seq <= y
  BY <1>3, Numbered DEF Between, Server!Chunks
\* The packet is whole: what follows it belongs to later packets.
<1>5. Cmd(p) => \A d \in After(Head(inbox)) \cap Between(x, y) :
                   Cmd(d.pkt) => p.seq < d.pkt.seq
  <2> SUFFICES ASSUME Cmd(p), NEW d \in After(Head(inbox)), d \in Between(x, y),
                      Cmd(d.pkt)
               PROVE  p.seq < d.pkt.seq
    OBVIOUS
  <2>1. \/ p.seq < d.pkt.seq
        \/ Head(inbox).part = "header" /\ d = Server!Payload(p)
    BY <1>3 DEF After, Later
  <2>2. CASE pc = "select" /\ ~Server!HasPayload(p)
    BY <2>1, <2>2 DEF Between, Server!Payload
  <2>3. CASE pc = "payload" /\ held = p
    <3>1. inbox \in Seq(After(Server!Header(p)))
      BY <1>1, <2>3 DEF Ordered
    <3>2. Head(inbox) \in After(Server!Header(p))
      BY <1>3, <3>1, SeqParts
    <3>3. Head(inbox) = Server!Payload(p)
      BY <1>3, <1>4, <3>2 DEF After, Later, Server!Header
    <3>4. QED
      BY <2>1, <3>3 DEF Server!Payload
  <2>4. QED
    BY <1>2, <2>2, <2>3 DEF HandleShape
<1> DEFINE w == IF Cmd(p) THEN p.seq ELSE x
<1>6. w \in Nat /\ x <= w /\ w <= y
  BY <1>1, <1>4 DEF Ordered
<1>7. /\ handled' \in Seq(Named) /\ InOrderOnce'
      /\ \A i \in DOMAIN handled' : Cmd(handled'[i]) => handled'[i].seq <= w
  <2>1. CASE p.type = "ACK"
    <3>1. handled' = handled /\ w = x
      BY <1>2, <2>1 DEF Cmd
    <3>2. QED
      BY <1>1, <3>1 DEF Ordered, OInv, InOrderOnce
  <2>2. CASE p.type # "ACK"
    <3>1. p \in Named /\ handled' = Append(handled, p)
      BY <1>2, <1>4, <2>2 DEF Named
    <3>2. \A i \in DOMAIN handled : Cmd(handled[i]) => handled[i].seq <= x
      BY <1>1 DEF Ordered
    <3>3. Cmd(p) => p.seq <= w
      BY <1>4
    <3>4. QED
      BY <1>4, <1>6, <3>1, <3>2, <3>3, HandledAppend
  <2>3. QED
    BY <2>1, <2>2
<1>8. Tail(inbox) \in Lines(w, y)
  <2>1. CASE ~Cmd(p)
    BY <1>3, <2>1
  <2>2. CASE Cmd(p)
    <3>1. \A i \in DOMAIN Tail(inbox) : Tail(inbox)[i] \in Between(w, y)
      <4>1. \A i \in DOMAIN Tail(inbox) :
               Tail(inbox)[i] \in After(Head(inbox)) \cap Between(x, y)
        BY <1>3 DEF Lines
      <4>2. \A d \in After(Head(inbox)) \cap Between(x, y) : d \in Between(w, y)
        BY <1>5, <2>2 DEF Between
      <4>3. QED
        BY <4>1, <4>2
    <3>2. Tail(inbox) \in Seq(Between(w, y))
      BY <1>3, <3>1, SeqOver DEF Lines
    <3>3. QED
      BY <1>3, <3>2 DEF Lines
  <2>3. QED
    BY <2>1, <2>2
<1>9. inbox' \in Lines(w, y) /\ pc' # "payload"
  <2>1. <<>> \in Lines(w, y)
    BY DEF Lines, Sorted
  <2>2. QED
    BY <1>2, <1>8, <2>1 DEF HandleShape
<1> HIDE DEF w
<1>10. Ordered(w, y, z)'
  BY <1>1, <1>2, <1>6, <1>7, <1>9 DEF Ordered
<1>11. QED
  BY <1>2, <1>6, <1>7, <1>10 DEF OInv

\* A step that handles and sends nothing.
LEMMA OrderedKeeps ==
    ASSUME OInv, NEW x \in Nat, NEW y \in Nat, NEW z \in Nat, Ordered(x, y, z),
           UNCHANGED <<sent, buffer, handled>>,
           inbox' \in Lines(x, y),
           pc' = "payload" => /\ (Server!Header(held) \in Between(x, y))'
                              /\ (inbox \in Seq(After(Server!Header(held))))',
           backlog' \in Seq(Waiting(y, z))
    PROVE  OInv'
<1>1. Ordered(x, y, z)'
  BY DEF Ordered
<1>2. QED
  BY <1>1 DEF OInv, InOrderOnce

\* Nor does any other step of the ground or of the network change the order.
LEMMA GroundOrdered ==
    ASSUME OInv, LInv, GroundStep
    PROVE  OInv'
<1>1. PICK x \in Nat, y \in Nat, z \in Nat : Ordered(x, y, z)
  BY DEF OInv
<1>2. /\ inbox \in Lines(x, y) /\ backlog \in Seq(Waiting(y, z))
      /\ pc = "payload" => /\ Server!Header(held) \in Between(x, y)
                           /\ inbox \in Seq(After(Server!Header(held)))
      /\ x <= y /\ y <= z
  BY <1>1 DEF Ordered
<1>3. UNCHANGED <<sent, buffer>> /\ \A lo, hi : <<>> \in Lines(lo, hi)
  BY GroundFrame DEF clientSide, Lines, Sorted
<1>4. CASE Accepts
  <2>1. /\ backlog # <<>> /\ backlog[1] \in Waiting(y, z)
        /\ inbox' = backlog[1].chunks /\ pc' = "keys" /\ backlog' = <<>>
        /\ UNCHANGED handled
    BY <1>2, <1>4 DEF Accepts, Server!AcceptFrom
  <2>2. inbox' \in Lines(y, z) /\ \A lo, hi : backlog' \in Seq(Waiting(lo, hi))
    BY <2>1 DEF Waiting
  <2>3. \A i \in DOMAIN handled : Cmd(handled[i]) => handled[i].seq <= y
    <3>1. \A i \in DOMAIN handled : handled[i].seq \in Nat
      BY Numbered DEF OInv, Named
    <3>2. QED
      BY <1>1, <3>1 DEF Ordered
  <2>4. Ordered(y, z, z)'
    BY <1>1, <1>3, <2>1, <2>2, <2>3 DEF Ordered
  <2>5. QED
    BY <1>3, <2>1, <2>4 DEF OInv, InOrderOnce
<1>5. CASE ServerWaits \/ WeatherSent
  <2>1. UNCHANGED <<handled, backlog>>
    BY <1>5, LoopEffect DEF Replies
  <2>2. CASE UNCHANGED inbox /\ pc' # "payload"
    BY <1>1, <1>2, <1>3, <2>1, <2>2, OrderedKeeps
  <2>3. CASE inbox # <<>> /\ inbox' = Tail(inbox) /\ held' = Head(inbox).pkt
    <3>1. /\ Tail(inbox) \in Lines(x, y) /\ Head(inbox) \in Between(x, y)
          /\ Tail(inbox) \in Seq(After(Head(inbox)))
      BY <1>2, <2>3, LineTail
    <3>2. Server!Header(held') \in Between(x, y)
      BY <2>3, <3>1 DEF Between, Server!Header, Server!Chunks
    <3>3. After(Head(inbox)) \subseteq After(Server!Header(held'))
      BY <2>3 DEF After, Later, Server!Header
    <3>4. Tail(inbox) \in Seq(After(Server!Header(held')))
      BY <3>1, <3>3, SeqMonotone
    <3>5. /\ (Server!Header(held) \in Between(x, y))'
          /\ (inbox \in Seq(After(Server!Header(held))))'
      BY <2>3, <3>2, <3>4
    <3>6. QED
      BY <1>1, <1>2, <1>3, <2>1, <2>3, <3>1, <3>5, OrderedKeeps
  <2>4. CASE inbox' = <<>> /\ pc' = "accept"
    BY <1>1, <1>2, <1>3, <2>1, <2>4, OrderedKeeps
  <2>5. QED
    BY <1>5, <2>2, <2>3, <2>4, LoopEffect
<1>6. CASE PathLost
  <2>1. UNCHANGED <<handled, pc, held>> /\ inbox' \in {inbox} \cup Prefixes(inbox)
    BY <1>6 DEF PathLost, Server!Keeps, serverSide
  <2>2. inbox' \in Lines(x, y)
    BY <1>2, <2>1, LinePrefix
  <2>3. pc' = "payload" => /\ (Server!Header(held) \in Between(x, y))'
                           /\ (inbox \in Seq(After(Server!Header(held))))'
    <3>1. ASSUME NEW S, inbox \in Seq(S) PROVE inbox' \in Seq(S)
      BY <2>1, <3>1, SeqParts DEF Prefixes
    <3>2. QED
      BY <1>2, <2>1, <3>1
  <2>4. backlog' \in Seq(Waiting(y, z))
    <3>1. CASE UNCHANGED backlog
      BY <1>2, <3>1
    <3>2. ASSUME NEW kept \in Prefixes(backlog[1].chunks), line = "queued",
                 backlog' = <<[link |-> "broken", chunks |-> kept]>>
          PROVE  backlog' \in Seq(Waiting(y, z))
      <4>1. backlog # <<>> /\ backlog[1] \in Waiting(y, z)
        BY <1>2, <3>2, SeqParts DEF LInv
      <4>2. backlog[1].chunks \in Lines(y, z)
        BY <4>1 DEF Waiting
      <4>3. kept \in Lines(y, z)
        BY <3>2, <4>2, LinePrefix
      <4>4. [link |-> "broken", chunks |-> kept] \in Waiting(y, z)
        BY <4>3 DEF Waiting
      <4>5. QED
        BY <3>2, <4>4
    <3>3. QED
      BY <1>6, <3>1, <3>2 DEF PathLost
  <2>5. QED
    BY <1>1, <1>3, <2>1, <2>2, <2>3, <2>4, OrderedKeeps
<1>7. ASSUME NEW k, ControllerPresses(k) PROVE OInv'
  <2>1. UNCHANGED <<handled, pc, held, inbox, backlog>>
    BY <1>7 DEF ControllerPresses, Server!PressKey, Server!serverVars
  <2>2. QED
    BY <1>1, <1>2, <1>3, <2>1, OrderedKeeps
<1>8. QED
  BY <1>4, <1>5, <1>6, <1>7, HandleOrdered DEF GroundStep, ServerActs

-----------------------------------------------------------------------------
(* The steps of the client.                                                *)

\* A send, or its failure, puts the packet behind all that is on its way.
LEMMA SendOrdered ==
    ASSUME NEW x \in Nat, NEW y \in Nat, NEW z \in Nat, NEW w \in Nat,
           Ordered(x, y, z), LInv, z <= w,
           NEW p \in Packets, Cmd(p) => z < p.seq /\ p.seq <= w,
           SendSucceeds(p) \/ SendFails, UNCHANGED <<pc, held>>
    PROVE  \E y2, z2 \in Nat :
              /\ x <= y2 /\ y2 <= z2 /\ z2 <= w
              /\ inbox' \in Lines(x, y2)
              /\ pc' = "payload" => /\ (Server!Header(held) \in Between(x, y2))'
                                    /\ (inbox \in Seq(After(Server!Header(held))))'
              /\ backlog' \in Seq(Waiting(y2, z2))
<1>1. /\ inbox \in Lines(x, y) /\ backlog \in Seq(Waiting(y, z))
      /\ pc = "payload" => /\ Server!Header(held) \in Between(x, y)
                           /\ inbox \in Seq(After(Server!Header(held)))
      /\ x <= y /\ y <= z
  BY DEF Ordered
<1>2. p.seq \in Nat
  BY Numbered
<1>3. CASE UNCHANGED <<inbox, backlog>>
  BY <1>1, <1>3
<1>4. CASE line = "open" /\ inbox' = inbox \o Chunks(p) /\ UNCHANGED backlog
  <2>1. Cmd(p) => y < p.seq /\ p.seq <= w
    BY <1>1, <1>2
  <2>2. inbox' \in Lines(x, w) /\ \A c \in Between(x, y) : Chunks(p) \in Seq(After(c))
    BY <1>1, <1>4, <2>1, LineSend
  <2>3. backlog' \in Seq(Waiting(w, w))
    BY <1>4 DEF LInv
  <2>4. ASSUME pc' = "payload"
        PROVE  /\ (Server!Header(held) \in Between(x, w))'
               /\ (inbox \in Seq(After(Server!Header(held))))'
    <3>1. /\ Server!Header(held) \in Between(x, y)
          /\ inbox \in Seq(After(Server!Header(held)))
      BY <1>1, <2>4
    <3>2. Chunks(p) \in Seq(After(Server!Header(held)))
      BY <2>2, <3>1
    <3>3. inbox' \in Seq(After(Server!Header(held)))
      BY <1>4, <3>1, <3>2, SeqParts
    <3>4. Server!Header(held) \in Between(x, w)
      BY <1>1, <3>1, LineWiden
    <3>5. QED
      BY <3>3, <3>4
  <2>5. x <= w /\ w <= w
    BY <1>1
  <2>6. QED
    BY <2>2, <2>3, <2>4, <2>5
<1>5. CASE /\ line = "queued" /\ UNCHANGED inbox
           /\ backlog' = <<[backlog[1] EXCEPT !.chunks = @ \o Chunks(p)]>>
  <2>1. backlog # <<>> /\ backlog[1] \in Waiting(y, z)
    BY <1>1, <1>5, SeqParts DEF LInv
  <2>2. backlog[1].chunks \in Lines(y, z)
    BY <2>1 DEF Waiting
  <2>3. backlog[1].chunks \o Chunks(p) \in Lines(y, w)
    BY <1>1, <2>2, LineSend
  <2>4. [backlog[1] EXCEPT !.chunks = @ \o Chunks(p)] \in Waiting(y, w)
    BY <2>1, <2>3 DEF Waiting
  <2>5. backlog' \in Seq(Waiting(y, w)) /\ y <= w
    BY <1>1, <1>5, <2>4
  <2>6. QED
    BY <1>1, <1>5, <2>5
<1>6. QED
  BY <1>3, <1>4, <1>5 DEF SendSucceeds, SendFails

\* The client's steps keep the order: what is given at the prompt finds the
\* buffer empty, and what is flushed from it finds nothing newer on its way.
LEMMA ClientOrdered ==
    ASSUME OInv, LInv, BInv, NInv,
           MainActs \/ GivesUp \/ ReceiverReads \/ ReceiverEnds
              \/ HeartbeatSent \/ HeartbeatFails
    PROVE  OInv'
<1>1. PICK x \in Nat, y \in Nat, z \in Nat : Ordered(x, y, z)
  BY DEF OInv
<1>2. /\ inbox \in Lines(x, y) /\ backlog \in Seq(Waiting(y, z))
      /\ pc = "payload" => /\ Server!Header(held) \in Between(x, y)
                           /\ inbox \in Seq(After(Server!Header(held)))
      /\ x <= y /\ y <= z /\ z <= Len(sent)
      /\ \A i \in DOMAIN buffer : z < buffer[i].seq /\ buffer[i].seq <= Len(sent)
      /\ \A i \in DOMAIN handled : Cmd(handled[i]) => handled[i].seq <= x
  BY <1>1 DEF Ordered
<1>3. /\ sent \in Seq(MenuOptions \cup {"handshake"}) /\ Len(sent) \in Nat
      /\ buffer \in Seq(Packets) /\ handled \in Seq(Named) /\ InOrderOnce
  BY DEF OInv
<1>4. \A lo, hi : <<>> \in Lines(lo, hi)
  BY DEF Lines, Sorted
\* Nothing is sent.
<1>5. ASSUME UNCHANGED <<sent, buffer, handled, pc, held, inbox>>,
             backlog' \in Seq(Waiting(y, z))
      PROVE  OInv'
  BY <1>1, <1>2, <1>5, OrderedKeeps
\* The main thread has sent p, and its count of packets is n.
<1>6. ASSUME NEW n \in Nat, NEW w \in Nat, NEW p \in Packets,
             z <= w, w <= n, Cmd(p) => z < p.seq /\ p.seq <= w,
             SendSucceeds(p) \/ SendFails, UNCHANGED <<pc, held, handled>>,
             sent' \in Seq(MenuOptions \cup {"handshake"}), Len(sent') = n,
             buffer' \in Seq(Packets),
             \A i \in DOMAIN buffer' : w < buffer'[i].seq /\ buffer'[i].seq <= n
      PROVE  OInv'
  <2>1. PICK y2 \in Nat, z2 \in Nat :
              /\ x <= y2 /\ y2 <= z2 /\ z2 <= w
              /\ inbox' \in Lines(x, y2)
              /\ pc' = "payload" => /\ (Server!Header(held) \in Between(x, y2))'
                                    /\ (inbox \in Seq(After(Server!Header(held))))'
              /\ backlog' \in Seq(Waiting(y2, z2))
    BY <1>1, <1>6, SendOrdered
  <2>2. \A i \in DOMAIN buffer' : z2 < buffer'[i].seq /\ buffer'[i].seq <= n
    <3>1. \A i \in DOMAIN buffer' : buffer'[i].seq \in Nat
      BY <1>6, Numbered
    <3>2. QED
      BY <1>6, <2>1, <3>1
  <2>3. z2 <= Len(sent')
    BY <1>6, <2>1
  <2>4. Ordered(x, y2, z2)'
    BY <1>2, <1>6, <2>1, <2>2, <2>3 DEF Ordered
  <2>5. QED
    BY <1>3, <1>6, <2>4 DEF OInv, InOrderOnce
<1>7. CASE Connects
  <2>1. [link |-> "open", chunks |-> <<>>] \in Waiting(y, z)
    BY <1>4 DEF Waiting
  <2>2. backlog' \in Seq(Waiting(y, z))
    BY <1>7, <2>1 DEF Connects
  <2>3. QED
    BY <1>5, <1>7, <2>2 DEF Connects, SendFrame, serverSide
<1>8. CASE Exits
  <2>1. \A b \in Waiting(y, z) :
           [b EXCEPT !.link = IF @ = "open" THEN "closed" ELSE @] \in Waiting(y, z)
    BY DEF Waiting
  <2>2. backlog' \in Seq(Waiting(y, z))
    BY <1>2, <1>8, <2>1 DEF Exits
  <2>3. inbox' \in {inbox, <<>>} /\ UNCHANGED <<sent, buffer, handled, pc, held>>
    BY <1>8 DEF Exits, Server!Keeps, serverSide
  <2>4. /\ inbox' \in Lines(x, y)
        /\ \A S : inbox \in Seq(S) => inbox' \in Seq(S)
    <3>1. \A S : <<>> \in Seq(S)
      OBVIOUS
    <3>2. QED
      BY <1>2, <1>4, <2>3, <3>1
  <2>5. QED
    BY <1>1, <1>2, <2>2, <2>3, <2>4, OrderedKeeps
<1>9. CASE Greeted \/ Menu \/ Mistypes \/ \E option \in Options : Chooses(option)
  BY <1>2, <1>5, <1>9 DEF Greeted, Menu, Mistypes, Chooses, SendFrame, serverSide
<1>10. CASE ReceiverReads \/ ReceiverEnds \/ HeartbeatFails
  BY <1>2, <1>5, <1>10 DEF ReceiverReads, ReceiverEnds, HeartbeatFails, ThreadFrame,
                          serverSide
<1>11. CASE HeartbeatSent
  <2>1. /\ Heartbeat \in Packets /\ ~Cmd(Heartbeat)
        /\ Chunks(Heartbeat) = <<Server!Header(Heartbeat)>>
    BY DEF Packets, Heartbeat, Cmd, Chunks, Server!HasPayload
  <2>2. inbox' = inbox \o Chunks(Heartbeat)
    BY <1>2, <1>11, <2>1 DEF HeartbeatSent, Lines
  <2>3. /\ inbox' \in Lines(x, y)
        /\ \A c \in Between(x, y) : Chunks(Heartbeat) \in Seq(After(c))
    <3>1. y <= y
      OBVIOUS
    <3>2. QED
      BY <1>2, <2>1, <2>2, <3>1, LineSend
  <2>4. UNCHANGED <<sent, buffer, handled, pc, held, backlog>>
    BY <1>11 DEF HeartbeatSent, ThreadFrame, serverSide
  <2>5. pc' = "payload" => /\ (Server!Header(held) \in Between(x, y))'
                           /\ (inbox \in Seq(After(Server!Header(held))))'
    BY <1>2, <2>2, <2>3, <2>4, SeqParts
  <2>6. QED
    BY <1>1, <1>2, <2>3, <2>4, <2>5, OrderedKeeps
<1>12. CASE Registers
  <2> DEFINE p == Handshake(Len(sent) + 1, phase_state)
  <2>1. UNCHANGED <<pc, held, handled, buffer>> /\ sent' = Append(sent, "handshake")
        /\ SendSucceeds(p)
    BY <1>12 DEF Registers, SendFrame, serverSide
  <2>2. sent' \in Seq(MenuOptions \cup {"handshake"}) /\ Len(sent') = Len(sent) + 1
    BY <1>3, <2>1
  <2>3. p \in Packets /\ ~Cmd(p)
    <3>1. Len(sent) + 1 \in 1 .. MaxSent /\ phase_state \in {0, 2, 3}
      BY <1>3, <1>12, CommsAssumption DEF Registers, NInv
    <3>2. p \in Packets
      BY <3>1 DEF Packets
    <3>3. p.type = "HANDSHAKE"
      BY DEF Handshake
    <3>4. QED
      BY <3>2, <3>3 DEF Cmd
  <2> HIDE DEF p
  <2>4. \A i \in DOMAIN buffer' : z < buffer'[i].seq /\ buffer'[i].seq <= Len(sent) + 1
    <3>1. \A i \in DOMAIN buffer : buffer[i].seq \in Nat
      BY <1>3, Numbered
    <3>2. QED
      BY <1>2, <1>3, <2>1, <3>1
  <2>5. z <= z /\ z <= Len(sent) + 1 /\ Len(sent) + 1 \in Nat /\ buffer' \in Seq(Packets)
    BY <1>2, <1>3, <2>1
  <2>6. QED
    BY <1>6, <2>1, <2>2, <2>3, <2>4, <2>5
<1>13. CASE Flush
  <2>1. UNCHANGED <<pc, held, handled, sent>>
    BY <1>13 DEF Flush, SendFrame, serverSide
  <2>2. CASE buffer # <<>> /\ (SendSucceeds(Head(buffer)) \/ SendFails)
             /\ buffer' = Tail(buffer)
    <3>1. Head(buffer) \in Packets /\ Tail(<<buffer[1]>>) = <<>>
      BY <1>3, <2>2
    <3>2. buffer' = <<>> /\ Head(buffer) = buffer[1] /\ 1 \in DOMAIN buffer
      BY <1>3, <2>2, <3>1 DEF BInv
    <3>3. z < Head(buffer).seq /\ Head(buffer).seq <= Len(sent)
      BY <1>2, <3>2
    <3>4. buffer' \in Seq(Packets) /\ DOMAIN buffer' = {}
      BY <3>2
    <3>5. z <= Len(sent) /\ Len(sent) <= Len(sent) /\ Len(sent') = Len(sent)
      BY <1>2, <1>3, <2>1
    <3>6. QED
      BY <1>3, <1>6, <2>1, <2>2, <3>1, <3>3, <3>4, <3>5
  <2>3. CASE UNCHANGED <<buffer, inbox, backlog>>
    BY <1>2, <1>5, <2>1, <2>3
  <2>4. QED
    BY <1>13, <2>2, <2>3 DEF Flush
<1>14. ASSUME NEW option \in Options, Reports(option) \/ Leaves(option) PROVE OInv'
  <2> DEFINE p == Command(option, Len(sent) + 1)
  <2>1. /\ UNCHANGED <<pc, held, handled>> /\ sent' = Append(sent, option)
        /\ option \in MenuOptions /\ Len(sent) + 1 \in 1 .. MaxSent /\ buffer = <<>>
        /\ SendSucceeds(p) \/ SendFails
    <3>1. main \in {"prompt"} \cup Composing
      BY <1>14, ReportsComposed DEF Reports, Leaves
    <3>2. buffer = <<>>
      BY <1>3, <3>1 DEF BInv
    <3>3. QED
      BY <1>3, <1>14, <3>2, CommsAssumption DEF Reports, Leaves, SendFrame, serverSide
  <2>2. sent' \in Seq(MenuOptions \cup {"handshake"}) /\ Len(sent') = Len(sent) + 1
    BY <1>3, <2>1
  <2>3. /\ p \in Packets /\ Buffered(p) \in Packets
        /\ p.seq = Len(sent) + 1 /\ Buffered(p).seq = Len(sent) + 1
    <3>1. p \in Commands
      BY <1>14, <2>1 DEF Commands
    <3>2. p \in Packets /\ Buffered(p) \in Packets
      BY <3>1 DEF Packets
    <3>3. p.seq = Len(sent) + 1 /\ Buffered(p).seq = p.seq
      BY DEF Command, Buffered
    <3>4. QED
      BY <3>2, <3>3
  <2> HIDE DEF p
  \* It is sent, or lost without notice.
  <2>4. CASE SendSucceeds(p) /\ UNCHANGED buffer
    <3>1. buffer' \in Seq(Packets) /\ DOMAIN buffer' = {}
      BY <2>1, <2>4
    <3>2. z <= Len(sent) + 1 /\ z < Len(sent) + 1
      BY <1>2, <1>3
    <3>3. QED
      BY <1>3, <1>6, <2>1, <2>2, <2>3, <2>4, <3>1, <3>2
  \* It is buffered, or the failure is ignored.
  <2>5. CASE SendFails /\ buffer' \in {buffer, Append(buffer, Buffered(p))}
    <3>1. /\ buffer' \in Seq(Packets)
          /\ \A i \in DOMAIN buffer' : buffer'[i].seq = Len(sent) + 1
      <4>1. \A b \in Packets : /\ Append(<<>>, b) \in Seq(Packets)
                               /\ \A i \in DOMAIN Append(<<>>, b) : Append(<<>>, b)[i] = b
        OBVIOUS
      <4>2. <<>> \in Seq(Packets) /\ DOMAIN <<>> = {}
        OBVIOUS
      <4>3. QED
        BY <2>1, <2>3, <2>5, <4>1, <4>2
    <3>2. /\ UNCHANGED <<inbox, backlog>> /\ z <= Len(sent') /\ z < Len(sent) + 1
      BY <1>2, <1>3, <2>2, <2>5 DEF SendFails
    <3>3. Ordered(x, y, z)'
      BY <1>2, <1>3, <2>1, <2>2, <3>1, <3>2 DEF Ordered
    <3>4. QED
      BY <1>3, <2>1, <2>2, <3>1, <3>3 DEF OInv, InOrderOnce
  <2>6. QED
    BY <1>14, <2>4, <2>5 DEF Reports, Leaves, p
<1>15. QED
  BY <1>7, <1>8, <1>9, <1>10, <1>11, <1>12, <1>13, <1>14
  DEF MainActs, GivesUp, RegisterFails, GreetFails

\* Nothing is out of order at the start.
LEMMA OrderInit == Init => CInv /\ OInv
<1> SUFFICES ASSUME Init PROVE OInv
  BY CInvInit
<1>1. Ordered(0, 0, 0)
  BY DEF Init, Server!Init, Ordered, Lines, Sorted
<1>2. QED
  BY <1>1 DEF Init, OInv, InOrderOnce

\* Every step keeps the order.
LEMMA OrderStep == CInv /\ OInv /\ [Next]_vars => (CInv /\ OInv)'
<1> SUFFICES ASSUME CInv, OInv, [Next]_vars PROVE OInv'
  BY CInvStep
<1>1. CASE UNCHANGED vars
  <2>1. UNCHANGED <<sent, buffer, handled, inbox, pc, held, backlog>>
    BY <1>1 DEF vars, serverSide, toServer, clientSide
  <2>2. PICK x \in Nat, y \in Nat, z \in Nat : Ordered(x, y, z)
    BY DEF OInv
  <2>3. QED
    BY <2>1, <2>2, OrderedKeeps DEF Ordered
<1>2. QED
  BY <1>1, GroundOrdered, ClientOrdered DEF Next, GroundStep, CInv

\* InOrderOnce (REQ-SYS-090): whatever is lost, buffered and retransmitted,
\* the ground controller handles the pilot's packets in order and none of
\* them twice.
THEOREM HandledInOrderOnce == Spec => []InOrderOnce
<1>1. OInv => InOrderOnce
  BY DEF OInv
<1>2. QED
  BY <1>1, OrderInit, OrderStep, PTL DEF Spec

-----------------------------------------------------------------------------
(* The abstract channel.                                                   *)

\* A sequence grows by what is appended to it.
LEMMA AppendExtends ==
    ASSUME NEW S, NEW s \in Seq(S), NEW e \in S
    PROVE  /\ Delivery!Extends(s, Append(s, e))
           /\ Append(s, e)[Len(Append(s, e))] = e
           /\ Len(s) + 1 \in DOMAIN Append(s, e) /\ Append(s, e)[Len(s) + 1] = e
           /\ DOMAIN s \subseteq DOMAIN Append(s, e)
           /\ \A i \in DOMAIN s : Append(s, e)[i] = s[i] /\ i < Len(s) + 1
BY DEF Delivery!Extends

\* A packet that is handled in order, and genuine, is delivered.
LEMMA HandlesDelivers ==
    ASSUME CInv, OInv, InOrderOnce', NEW p \in Server!Arriving, ServerHandles(p)
    PROVE  [Delivery!Next]_<<sent, handled>>
<1>1. /\ UNCHANGED sent
      /\ handled' = IF p.type = "ACK" THEN handled ELSE Append(handled, p)
  BY DEF ServerHandles, Replies, clientSide
<1>2. p \in Packets /\ Genuine(p)
  <2>1. inbox # <<>> /\ p = Head(inbox).pkt /\ inbox \in Seq(ToldChunks)
    BY DEF Server!Arriving, CInv, NInv
  <2>2. Head(inbox) \in ToldChunks
    BY <2>1, SeqParts
  <2>3. QED
    BY <2>1, <2>2 DEF ToldChunks, Told, Server!Chunks
<1>3. CASE p.type = "ACK"
  BY <1>1, <1>3
<1>4. CASE p.type # "ACK"
  <2>1. p \in Named /\ handled \in Seq(Named) /\ handled' = Append(handled, p)
    BY <1>1, <1>2, <1>4 DEF Named, OInv
  <2>2. /\ Delivery!Extends(handled, handled') /\ handled'[Len(handled')] = p
        /\ Len(handled) + 1 \in DOMAIN handled' /\ handled'[Len(handled) + 1] = p
        /\ DOMAIN handled \subseteq DOMAIN handled'
        /\ \A i \in DOMAIN handled : handled'[i] = handled[i] /\ i < Len(handled) + 1
    BY <2>1, AppendExtends
  <2>3. p.seq \in DOMAIN sent /\ p.type = TypeSent(sent[p.seq])
    BY <1>2, <1>4 DEF Genuine
  <2>4. p.type = "HANDSHAKE" \/ Delivery!InTurn(p.seq)
    BY <2>2 DEF InOrderOnce, Delivery!InTurn
  <2>5. Delivery!Deliver
    BY <1>1, <2>2, <2>3, <2>4 DEF Delivery!Deliver
  <2>6. QED
    BY <2>5 DEF Delivery!Next
<1>5. QED
  BY <1>3, <1>4

\* Every other step of the ground delivers nothing.
LEMMA GroundDelivers ==
    ASSUME CInv, OInv, InOrderOnce', GroundStep
    PROVE  [Delivery!Next]_<<sent, handled>>
<1>1. UNCHANGED sent
  BY GroundFrame DEF clientSide
<1>2. CASE Accepts \/ PathLost \/ \E k \in {"D", "other"} : ControllerPresses(k)
  BY <1>1, <1>2 DEF Accepts, PathLost, ControllerPresses
<1>3. CASE ServerWaits \/ WeatherSent
  BY <1>1, <1>3 DEF ServerWaits, WeatherSent
<1>4. QED
  BY <1>2, <1>3, HandlesDelivers DEF GroundStep, ServerActs

\* A step of the client gives at most one packet.
LEMMA ClientGives ==
    ASSUME CInv, MainActs \/ GivesUp \/ ReceiverReads \/ ReceiverEnds
                          \/ HeartbeatSent \/ HeartbeatFails
    PROVE  [Delivery!Next]_<<sent, handled>>
<1>1. ASSUME NEW o \in MenuOptions \cup {"handshake"}, sent' = Append(sent, o),
             UNCHANGED handled
      PROVE  Delivery!Next
  <2>1. sent \in Seq(MenuOptions \cup {"handshake"})
    BY DEF CInv, NInv
  <2>2. Delivery!Extends(sent, sent')
    BY <1>1, <2>1, AppendExtends
  <2>3. QED
    BY <1>1, <2>2 DEF Delivery!Next, Delivery!Give
<1>2. CASE \/ Connects \/ Exits \/ Greeted \/ Flush \/ Menu \/ Mistypes
           \/ \E option \in Options : Chooses(option)
  BY <1>2 DEF Connects, Exits, Greeted, Flush, Menu, Mistypes, Chooses, SendFrame
<1>3. CASE Registers
  BY <1>1, <1>3 DEF Registers, SendFrame
<1>4. ASSUME NEW option \in Options, Reports(option) \/ Leaves(option)
      PROVE  Delivery!Next
  BY <1>1, <1>4, CommsAssumption DEF Reports, Leaves, SendFrame
<1>5. CASE ReceiverReads \/ ReceiverEnds \/ HeartbeatSent \/ HeartbeatFails
  BY <1>5 DEF ReceiverReads, ReceiverEnds, HeartbeatSent, HeartbeatFails, ThreadFrame
<1>6. QED
  BY <1>2, <1>3, <1>4, <1>5 DEF MainActs, GivesUp, RegisterFails, GreetFails

\* DeliveryPromise: all the sessions together deliver what the pilot gave as
\* one channel does that may lose a packet but invents, alters, repeats and
\* reorders none.  Every step maps to a step of ATCDelivery or to a stutter.
THEOREM SessionsDeliver == Spec => DeliveryPromise
<1>1. Init => Delivery!Init
  BY DEF Init, Delivery!Init
<1>2. CInv /\ OInv /\ InOrderOnce' /\ [Next]_vars => [Delivery!Next]_<<sent, handled>>
  <2>1. UNCHANGED vars => UNCHANGED <<sent, handled>>
    BY DEF vars, clientSide
  <2>2. QED
    BY <2>1, GroundDelivers, ClientGives DEF Next, GroundStep
<1>3. OInv => InOrderOnce
  BY DEF OInv
<1>4. QED
  BY <1>1, <1>2, <1>3, OrderInit, OrderStep, PTL
  DEF Spec, DeliveryPromise, Delivery!Spec, Delivery!deliveryVars
=============================================================================
