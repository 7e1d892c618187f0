--------------------------- MODULE DoomslugChains ---------------------------
(***************************************************************************)
(* What the inductive invariant IndInv of Doomslug says of chains of       *)
(* headers: it implies FinalitySafety, and a block made on a known block   *)
(* with enough approvals again forms a sound chain and keeps IndInv.       *)
(***************************************************************************)
EXTENDS Doomslug, SequenceTheorems, TLAPS

-----------------------------------------------------------------------------
(***************************************************************************)
(* Chains as sequences of headers.                                         *)
(***************************************************************************)

\* A chain is its own longest prefix.
LEMMA WholePrefix ==
  ASSUME NEW b \in Seq(Headers)
  PROVE  Prefix(b, Len(b)) = b
  <1>1. /\ SubSeq(b, 1, Len(b)) \in Seq(Headers) /\ Len(SubSeq(b, 1, Len(b))) = Len(b)
        /\ \A i \in 1..Len(b) : SubSeq(b, 1, Len(b))[i] = b[i]
    OBVIOUS
  <1> QED BY <1>1, SeqEqual DEF Prefix

\* Extending a chain keeps the chain below: positions, prefixes, parent.
LEMMA ExtendChain ==
  ASSUME NEW p \in Seq(Headers), Len(p) >= 1, NEW x \in Headers
  PROVE  /\ Append(p, x) \in Seq(Headers)
         /\ Len(Append(p, x)) = Len(p) + 1
         /\ Append(p, x)[Len(p) + 1] = x
         /\ \A n \in 1..Len(p) : Append(p, x)[n] = p[n]
  OBVIOUS

\* The prefixes of an extended chain are those of the chain it extends.
LEMMA PrefixOfExtended ==
  ASSUME NEW p \in Seq(Headers), Len(p) >= 1, NEW x \in Headers, NEW n \in 1..Len(p)
  PROVE  Prefix(Append(p, x), n) = Prefix(p, n)
  <1> DEFINE c == Append(p, x)
  <1>1. c \in Seq(Headers) /\ n \in 1..Len(c) /\ \A i \in 1..Len(p) : c[i] = p[i]
    OBVIOUS
  <1> HIDE DEF c
  <1>2. /\ SubSeq(c, 1, n) \in Seq(Headers) /\ Len(SubSeq(c, 1, n)) = n
        /\ \A i \in 1..n : SubSeq(c, 1, n)[i] = c[i]
    BY <1>1
  <1>3. /\ SubSeq(p, 1, n) \in Seq(Headers) /\ Len(SubSeq(p, 1, n)) = n
        /\ \A i \in 1..n : SubSeq(p, 1, n)[i] = p[i]
    OBVIOUS
  <1>4. SubSeq(c, 1, n) = SubSeq(p, 1, n)
    BY <1>1, <1>2, <1>3, SeqEqual
  <1> QED BY <1>4 DEF Prefix, c

\* A prefix of a chain is the chain up to that position.
LEMMA ChainPrefix ==
  ASSUME NEW b \in Seq(Headers), NEW n \in 1..Len(b)
  PROVE  /\ Prefix(b, n) \in Seq(Headers)
         /\ Len(Prefix(b, n)) = n
         /\ \A i \in 1..n : Prefix(b, n)[i] = b[i]
         /\ Header(Prefix(b, n)) = b[n]
         /\ Height(Prefix(b, n)) = b[n].height
  BY DEF Prefix, Header, Height

\* The fields of the headers of a chain.
LEMMA HeaderFields ==
  ASSUME NEW b \in Seq(Headers), NEW n \in 1..Len(b)
  PROVE  /\ b[n].height \in Heights /\ b[n].height \in Nat
         /\ b[n].height >= GenesisHeight
         /\ b[n].last_ds_final \in Nat /\ b[n].last_final \in Nat
  <1>1. b[n] \in Headers
    BY ElementOfSeq
  <1>2. /\ b[n].height \in Heights
        /\ b[n].last_ds_final \in Nat /\ b[n].last_final \in Nat
    <2> DEFINE x == b[n]
    <2>1. x \in Headers
      BY <1>1
    <2> HIDE DEF x
    <2>2. x.height \in Heights /\ x.last_ds_final \in Nat /\ x.last_final \in Nat
      BY <2>1 DEF Headers
    <2> QED BY <2>2 DEF x
  <1>3. \A h \in Heights : h \in Nat /\ h >= GenesisHeight
    BY ConstantsAssumption DEF Heights
  <1> QED BY <1>2, <1>3

\* Below the top of a prefix lies the next shorter prefix.
LEMMA PrevOfPrefix ==
  ASSUME NEW b \in Seq(Headers), NEW n \in 1..Len(b) - 1
  PROVE  Prev(Prefix(b, n + 1)) = Prefix(b, n)
  <1> DEFINE q == Prefix(b, n + 1)
  <1>1. q \in Seq(Headers) /\ Len(q) = n + 1 /\ \A i \in 1..n + 1 : q[i] = b[i]
    BY ChainPrefix
  <1>2. /\ Prefix(q, n) \in Seq(Headers) /\ Len(Prefix(q, n)) = n
        /\ \A i \in 1..n : Prefix(q, n)[i] = q[i]
    BY <1>1, ChainPrefix
  <1>3. /\ Prefix(b, n) \in Seq(Headers) /\ Len(Prefix(b, n)) = n
        /\ \A i \in 1..n : Prefix(b, n)[i] = b[i]
    BY ChainPrefix
  <1>4. Prefix(q, n) = Prefix(b, n)
    <2> HIDE DEF q
    <2>1. \A i \in 1..n : Prefix(q, n)[i] = Prefix(b, n)[i]
      BY <1>1, <1>2, <1>3
    <2> QED BY <1>2, <1>3, <2>1, SeqEqual
  <1> QED BY <1>1, <1>4 DEF Prev

-----------------------------------------------------------------------------
(***************************************************************************)
(* FinalitySafety follows from the state invariant: no step is involved.   *)
(***************************************************************************)

\* Two approved blocks have an honest approver in common (quorums intersect).
LEMMA CommonApprover ==
  ASSUME BlocksAreApproved,
         NEW b \in blocks, Len(b) > 1, NEW c \in blocks, Len(c) > 1
  PROVE  \E v \in Honest : /\ Approval(Prev(b), Height(b)) \in sent[v]
                           /\ Approval(Prev(c), Height(c)) \in sent[v]
  <1>1. PICK Q1 \in SUBSET Validators :
          /\ CanApprovedBlockBeProduced(Q1)
          /\ \A v \in Q1 \ Faulty : Approval(Prev(b), Height(b)) \in sent[v]
    BY DEF BlocksAreApproved
  <1>2. PICK Q2 \in SUBSET Validators :
          /\ CanApprovedBlockBeProduced(Q2)
          /\ \A v \in Q2 \ Faulty : Approval(Prev(c), Height(c)) \in sent[v]
    BY DEF BlocksAreApproved
  <1>3. PICK v \in Q1 \cap Q2 : v \notin Faulty
    BY <1>1, <1>2, QuorumAssumption
  <1> QED BY <1>1, <1>2, <1>3 DEF Honest

\* An edge of the tree that jumps over the height of a block B on which a child
\* one higher and a grandchild two higher were built starts at B itself.
LEMMA JumpStartsAtFinal ==
  ASSUME TypeOK, BlocksFormATree, BlocksAreApproved, SentIsCovered,
         NoConflictingApprovals,
         NEW b \in blocks, NEW n \in Nat, n > 0, n + 1 < Len(b),
         b[n + 1].height = b[n].height + 1, b[n + 2].height = b[n].height + 2,
         NEW c \in blocks, NEW k \in 1..Len(c) - 1,
         c[k].height <= b[n].height, b[n].height < c[k + 1].height
  PROVE  Prefix(c, k) = Prefix(b, n)
  <1> DEFINE B  == Prefix(b, n)
             B1 == Prefix(b, n + 1)
             B2 == Prefix(b, n + 2)
             P  == Prefix(c, k)
             C  == Prefix(c, k + 1)
             h  == b[n].height
  <1>1. b \in Seq(Headers) /\ c \in Seq(Headers)
    BY DEF TypeOK
  <1>2. /\ B \in blocks /\ B1 \in blocks /\ B2 \in blocks
        /\ P \in blocks /\ C \in blocks
    <2>1. /\ n \in 1..Len(b) /\ n + 1 \in 1..Len(b) /\ n + 2 \in 1..Len(b)
          /\ k \in 1..Len(c) /\ k + 1 \in 1..Len(c)
      BY <1>1
    <2> QED BY <2>1 DEF BlocksFormATree
  <1>3. /\ Height(B) = h /\ Height(B1) = h + 1 /\ Height(B2) = h + 2
        /\ Height(P) = c[k].height /\ Height(C) = c[k + 1].height
        /\ Len(B1) > 1 /\ Len(B2) > 1 /\ Len(C) > 1
    BY <1>1, ChainPrefix
  <1>4. Prev(B1) = B /\ Prev(B2) = B1 /\ Prev(C) = P
    <2>1. Prev(B1) = B
      BY <1>1, PrevOfPrefix
    <2>2. Prev(B2) = B1
      <3>1. n + 1 \in 1..Len(b) - 1 /\ (n + 1) + 1 = n + 2
        BY <1>1
      <3> QED BY <1>1, <3>1, PrevOfPrefix
    <2>3. Prev(C) = P
      BY <1>1, PrevOfPrefix
    <2> QED BY <2>1, <2>2, <2>3
  <1>5. h \in Nat /\ Height(P) \in Nat /\ Height(C) \in Nat
    <2>1. n \in 1..Len(b) /\ k \in 1..Len(c) /\ k + 1 \in 1..Len(c)
      BY <1>1
    <2> QED BY <1>1, <1>3, <2>1, HeaderFields
  <1> HIDE DEF B, B1, B2, P, C, h
  <1>6. /\ Approval(B, h + 1) = Endorsement(B, h + 1)
        /\ Approval(B1, h + 2) = Endorsement(B1, h + 2)
    BY <1>3, <1>5 DEF Approval
  <1>7. Height(P) <= h /\ h < Height(C)
    BY <1>3 DEF h
  <1>8. CASE Height(C) = Height(P) + 1
    <2>1. Approval(P, Height(C)) = Endorsement(P, h + 1) /\ Height(P) = h /\ Height(C) = h + 1
      BY <1>5, <1>7, <1>8 DEF Approval
    <2>2. PICK v \in Honest : Endorsement(B, h + 1) \in sent[v] /\ Endorsement(P, h + 1) \in sent[v]
      BY <1>2, <1>3, <1>4, <1>6, <2>1, CommonApprover
    <2>3. B = P
      BY <2>2 DEF NoConflictingApprovals, Endorsement
    <2> QED BY <2>3 DEF B, P
  <1>9. CASE Height(C) # Height(P) + 1 /\ Height(P) < h
    <2>1. Approval(P, Height(C)) = Skip(Height(P), Height(C))
      BY <1>9 DEF Approval
    <2>2. PICK v \in Honest : /\ Endorsement(B, h + 1) \in sent[v]
                              /\ Skip(Height(P), Height(C)) \in sent[v]
      BY <1>2, <1>3, <1>4, <1>6, <2>1, CommonApprover
    <2>3. ~(Height(P) < Height(B) /\ Height(B) < Height(C))
      BY <2>2 DEF NoConflictingApprovals, Endorsement, Skip
    <2> QED BY <2>3, <1>3, <1>7, <1>9
  <1>10. CASE Height(C) # Height(P) + 1 /\ Height(P) = h
    <2>1. Approval(P, Height(C)) = Skip(Height(P), Height(C)) /\ Height(C) > h + 1
      BY <1>5, <1>7, <1>10 DEF Approval
    <2>2. PICK v \in Honest : /\ Endorsement(B1, h + 2) \in sent[v]
                              /\ Skip(Height(P), Height(C)) \in sent[v]
      BY <1>2, <1>3, <1>4, <1>6, <2>1, CommonApprover
    <2>3. ~(Height(P) < Height(B1) /\ Height(B1) < Height(C))
      BY <2>2 DEF NoConflictingApprovals, Endorsement, Skip
    <2> QED BY <2>1, <2>3, <1>3, <1>5, <1>10
  <1> QED BY <1>5, <1>7, <1>8, <1>9, <1>10

\* The inductive invariant makes finality irreversible.
THEOREM FinalityFromInvariant == IndInv => FinalitySafety
  <1> SUFFICES ASSUME IndInv, NEW b \in blocks, NEW c \in blocks,
                      Header(b).last_final > 0,
                      Height(c) > b[Header(b).last_final].height
               PROVE  IsAncestorOrSelf(Prefix(b, Header(b).last_final), c)
    BY DEF FinalitySafety
  <1> DEFINE n == Header(b).last_final
  <1>1. b \in Seq(Headers) /\ c \in Seq(Headers)
    BY DEF IndInv, TypeOK
  <1>2. Len(b) >= 1 /\ n \in Nat
    <2>1. Len(b) \in Nat /\ Len(b) >= 1
      BY <1>1 DEF IndInv, BlocksFormATree
    <2> QED BY <1>1, <2>1, HeaderFields DEF Header
  <1>3. /\ n + 1 < Len(b) /\ b[n + 1].height = b[n].height + 1
        /\ b[n + 2].height = b[n].height + 2
    BY DEF IndInv, FinalityPointersAreEarned
  <1> HIDE DEF n
  <1>4. n \in 1..Len(b) /\ b[n].height \in Heights
    <2>1. n > 0
      BY DEF n
    <2>2. n \in 1..Len(b)
      BY <1>1, <1>2, <1>3, <2>1
    <2> QED BY <1>1, <2>2, HeaderFields
  <1>5. PICK k \in 1..Len(c) - 1 : c[k].height <= b[n].height /\ b[n].height < c[k + 1].height
    BY Zenon, <1>4 DEF IndInv, BlocksFormATree, n
  <1>6. Prefix(c, k) = Prefix(b, n)
    BY Zenon, <1>2, <1>3, <1>5, JumpStartsAtFinal DEF IndInv, n
  <1>7. k = n /\ \A i \in 1..n : c[i] = b[i]
    <2>1. Len(Prefix(b, n)) = n /\ \A i \in 1..n : Prefix(b, n)[i] = b[i]
      BY <1>1, <1>4, ChainPrefix
    <2>2. k \in 1..Len(c)
      BY <1>1
    <2>3. Len(Prefix(c, k)) = k /\ \A i \in 1..k : Prefix(c, k)[i] = c[i]
      BY <1>1, <2>2, ChainPrefix
    <2> QED BY <1>6, <2>1, <2>3
  <1>8. Len(Prefix(b, n)) = n /\ \A i \in 1..n : Prefix(b, n)[i] = b[i]
    BY <1>1, <1>4, ChainPrefix
  <1>9. n <= Len(c)
    BY <1>1, <1>7
  <1> QED BY <1>7, <1>8, <1>9 DEF IsAncestorOrSelf, n

\* The height of a stored head is a natural number.
LEMMA HeadHeight ==
  ASSUME TypeOK, BlocksFormATree, NEW b \in blocks
  PROVE  /\ b \in Seq(Headers) /\ Len(b) \in Nat /\ Len(b) >= 1
         /\ Height(b) \in Nat /\ Height(b) \in Heights /\ Height(b) >= GenesisHeight
         /\ Header(b).last_final \in Nat /\ Header(b).last_ds_final \in Nat
  <1>1. b \in Seq(Headers) /\ Len(b) \in Nat /\ Len(b) >= 1
    BY DEF TypeOK, BlocksFormATree
  <1> QED BY <1>1, HeaderFields DEF Height, Header

-----------------------------------------------------------------------------
(***************************************************************************)
(* New blocks.                                                             *)
(***************************************************************************)

\* Enough approvals contain an honest one, and honest validators approve only
\* heights above the parent's.
LEMMA ApprovedHeightIsHigher ==
  ASSUME IndInv, NEW p \in blocks, NEW height \in Heights, EnoughApprovals(p, height)
  PROVE  height > Height(p)
  <1>1. Signed(p, height) \in SUBSET Validators
    BY ConstantsAssumption DEF Signed, Honest
  <1>2. PICK v \in Signed(p, height) : v \notin Faulty
    BY <1>1, QuorumAssumption DEF EnoughApprovals
  <1>3. v \in Honest /\ Approval(p, height) \in sent[v]
    BY <1>2 DEF Signed
  <1>4. Height(p) \in Nat /\ height \in Nat
    BY HeadHeight, ConstantsAssumption DEF IndInv, Heights
  <1>5. CASE height = Height(p) + 1
    BY <1>4, <1>5
  <1>6. CASE height # Height(p) + 1
    <2>1. Skip(Height(p), height) \in sent[v]
      BY <1>3, <1>6 DEF Approval
    <2>2. Height(p) + 1 < height
      BY <1>3, <2>1 DEF Skip, IndInv, SentIsCovered
    <2> QED BY <1>4, <2>2
  <1> QED BY <1>5, <1>6

\* What the tree of blocks needs of a block at `height` on p.
SoundBlock(c, p, height) ==
  /\ c \in Seq(Headers) /\ Len(c) = Len(p) + 1 /\ Len(c) \in Nat /\ Len(c) > 1
  /\ Height(c) = height /\ Prev(c) = p /\ c[1] = GenesisHeader
  /\ \A n \in 1..Len(c) : Prefix(c, n) \in blocks \cup {c}
  /\ \A n \in 1..Len(c) - 1 : c[n].height < c[n + 1].height
  /\ \A h \in Heights : h < Height(c) =>
       \E n \in 1..Len(c) - 1 : c[n].height <= h /\ h < c[n + 1].height
  /\ \A l : l = Header(c).last_ds_final /\ l > 0
       => l < Len(c) /\ c[l + 1].height = c[l].height + 1
  /\ \A f : f = Header(c).last_final /\ f > 0
       => /\ f + 1 < Len(c)
          /\ c[f + 1].height = c[f].height + 1
          /\ c[f + 2].height = c[f].height + 2

\* A block made on a known block with enough approvals is a sound block.
LEMMA NewBlockIsSound ==
  ASSUME IndInv, NEW p \in blocks, NEW height \in Heights, NEW tag \in Nat,
         EnoughApprovals(p, height),
         NEW c, c = MakeBlock(p, height, tag)
  PROVE  SoundBlock(c, p, height)
  <1> DEFINE x == [height |-> height, tag |-> tag,
                   last_ds_final |-> LastDsFinal(p, height),
                   last_final |-> LastFinal(p, height)]
             L == Len(p)
             H == Height(p)
             l0 == Header(p).last_ds_final
             f0 == Header(p).last_final
  <1>1. /\ p \in Seq(Headers) /\ L \in Nat /\ L >= 1 /\ H \in Nat
        /\ l0 \in Nat /\ f0 \in Nat
    BY HeadHeight DEF IndInv
  <1>2. height \in Nat /\ height > H
    BY ApprovedHeightIsHigher, ConstantsAssumption DEF Heights
  <1>3. LastDsFinal(p, height) \in Nat /\ LastFinal(p, height) \in Nat
    BY <1>1 DEF LastDsFinal, LastFinal
  <1>4. x \in Headers
    BY <1>3 DEF Headers
  <1>5. /\ c \in Seq(Headers) /\ Len(c) = L + 1 /\ c[L + 1] = x
        /\ \A n \in 1..L : c[n] = p[n]
        /\ \A n \in 1..L : Prefix(c, n) = Prefix(p, n)
        /\ Prefix(c, L + 1) = c /\ Prev(c) = p
    <2>1. c = Append(p, x)
      BY DEF MakeBlock
    <2> HIDE DEF x
    <2>2. /\ c \in Seq(Headers) /\ Len(c) = L + 1 /\ c[L + 1] = x
          /\ \A n \in 1..L : c[n] = p[n]
      BY <1>1, <1>4, <2>1, ExtendChain
    <2>3. \A n \in 1..L : Prefix(c, n) = Prefix(p, n)
      BY <1>1, <1>4, <2>1, PrefixOfExtended, Zenon
    <2>4. Prefix(c, L + 1) = c
      BY <2>2, WholePrefix, Zenon
    <2>5. Prefix(p, L) = p
      BY <1>1, WholePrefix, Zenon
    <2>6. L \in 1..L /\ Len(c) - 1 = L
      BY <1>1, <2>2
    <2>7. Prev(c) = p
      BY <2>3, <2>5, <2>6 DEF Prev
    <2> QED BY <2>2, <2>3, <2>4, <2>7
  <1>6. Header(c) = x /\ Height(c) = height /\ c[L + 1].height = height /\ c[L].height = H
    BY <1>1, <1>5 DEF Header, Height
  <1>7. c[1] = GenesisHeader
    <2>1. p[1] = GenesisHeader
      BY DEF IndInv, BlocksFormATree
    <2> QED BY <1>1, <1>5, <2>1
  <1>8. ASSUME NEW n \in 1..Len(c) PROVE Prefix(c, n) \in blocks \cup {c}
    <2>1. CASE n = L + 1
      BY <1>5, <2>1
    <2>2. CASE n \in 1..L
      <3>1. Prefix(p, n) \in blocks
        BY <2>2 DEF IndInv, BlocksFormATree
      <3> QED BY <1>5, <2>2, <3>1
    <2> QED BY <1>1, <1>5, <2>1, <2>2
  <1>9. ASSUME NEW n \in 1..Len(c) - 1 PROVE c[n].height < c[n + 1].height
    <2>1. CASE n = L
      BY <1>2, <1>6, <2>1
    <2>2. CASE n \in 1..L - 1
      <3>1. p[n].height < p[n + 1].height
        BY Zenon, <2>2 DEF IndInv, BlocksFormATree
      <3>2. n \in 1..L /\ n + 1 \in 1..L
        BY <1>1, <2>2
      <3> QED BY <1>5, <3>1, <3>2
    <2> QED BY <1>1, <1>5, <2>1, <2>2
  <1>10. ASSUME NEW h \in Heights, h < Height(c)
         PROVE  \E n \in 1..Len(c) - 1 : c[n].height <= h /\ h < c[n + 1].height
    <2>1. h \in Nat
      BY ConstantsAssumption DEF Heights
    <2>2. CASE h < H
      <3>1. PICK n \in 1..L - 1 : p[n].height <= h /\ h < p[n + 1].height
        BY <2>2 DEF IndInv, BlocksFormATree
      <3>2. n \in 1..L /\ n + 1 \in 1..L /\ n \in 1..Len(c) - 1
        BY <1>1, <1>5
      <3>3. c[n] = p[n] /\ c[n + 1] = p[n + 1]
        BY <1>5, <3>2
      <3> QED BY <3>1, <3>2, <3>3
    <2>3. CASE H <= h
      <3>1. L \in 1..Len(c) - 1
        BY <1>1, <1>5
      <3> QED BY <1>6, <1>10, <2>3, <3>1
    <2> QED BY SMTT(30), <1>1, <2>1, <2>2, <2>3
  <1>11. /\ l0 > 0 => l0 < L /\ p[l0 + 1].height = p[l0].height + 1
         /\ f0 > 0 => /\ f0 + 1 < L
                      /\ p[f0 + 1].height = p[f0].height + 1
                      /\ p[f0 + 2].height = p[f0].height + 2
    BY DEF IndInv, FinalityPointersAreEarned
  <1>12. ASSUME NEW l, l = LastDsFinal(p, height), l > 0
         PROVE  l < Len(c) /\ c[l + 1].height = c[l].height + 1
    <2>1. CASE height = H + 1
      <3>1. l = L
        BY <1>12, <2>1 DEF LastDsFinal
      <3> QED BY <1>1, <1>5, <1>6, <2>1, <3>1
    <2>2. CASE height # H + 1
      <3>1. l = l0
        BY <1>12, <2>2 DEF LastDsFinal
      <3>2. l \in 1..L /\ l + 1 \in 1..L
        BY <1>1, <1>11, <1>12, <3>1
      <3> QED BY <1>1, <1>5, <1>11, <1>12, <3>1, <3>2
    <2> QED BY <2>1, <2>2
  <1>13. ASSUME NEW f, f = LastFinal(p, height), f > 0
         PROVE  /\ f + 1 < Len(c)
                /\ c[f + 1].height = c[f].height + 1
                /\ c[f + 2].height = c[f].height + 2
    <2>1. CASE height = H + 1 /\ l0 = L - 1
      <3>1. f = L - 1 /\ L > 1
        BY <1>1, <1>13, <2>1 DEF LastFinal
      <3>2. p[L].height = p[L - 1].height + 1
        BY <1>1, <1>11, <2>1, <3>1
      <3>3. /\ c[L - 1] = p[L - 1] /\ c[L] = p[L] /\ f + 1 = L /\ f + 2 = L + 1
            /\ L - 1 \in 1..L
        BY <1>1, <1>5, <3>1
      <3>4. p[L - 1].height \in Nat
        BY <1>1, <3>3, HeaderFields
      <3> QED BY SMTT(30), <1>1, <1>5, <1>6, <2>1, <3>1, <3>2, <3>3, <3>4
    <2>2. CASE ~(height = H + 1 /\ l0 = L - 1)
      <3>1. f = f0
        BY <1>13, <2>2 DEF LastFinal
      <3>2. f \in 1..L /\ f + 1 \in 1..L /\ f + 2 \in 1..L
        BY <1>1, <1>11, <1>13, <3>1
      <3> QED BY <1>1, <1>5, <1>11, <1>13, <3>1, <3>2
    <2> QED BY <2>1, <2>2
  <1>14. Header(c).last_ds_final = LastDsFinal(p, height) /\ Header(c).last_final = LastFinal(p, height)
    BY <1>6
  <1>15. Len(c) = Len(p) + 1 /\ Len(c) \in Nat /\ Len(c) > 1
    BY <1>1, <1>5
  <1> HIDE DEF x, L, H, l0, f0
  <1> QED BY <1>5, <1>6, <1>7, <1>8, <1>9, <1>10, <1>12, <1>13, <1>14, <1>15 DEF SoundBlock

\* A sound new block, at a height its producer has marked as known if the
\* producer is honest, keeps the invariant.
LEMMA NewBlockPreserves ==
  ASSUME IndInv, NEW p \in blocks, NEW height \in Heights, NEW tag \in Nat,
         EnoughApprovals(p, height),
         blocks' = blocks \cup {MakeBlock(p, height, tag)},
         UNCHANGED <<sent, known, head, final_head, saved_target>>,
         latest_known' \in [Honest -> Nat],
         \A w \in Honest : latest_known[w] <= latest_known'[w],
         Producer[height] \in Honest => /\ latest_known[Producer[height]] < height
                                        /\ height <= latest_known'[Producer[height]],
         ds' \in [Honest -> DoomslugStates],
         \A w \in Honest : /\ ds'[w].largest_target = ds[w].largest_target
                           /\ ds'[w].tip \in {NoBlock, head[w]}
                           /\ ds'[w].tip = head[w] => ds'[w].timer_height > Height(head[w])
  PROVE  IndInv'
  <1>0. PICK c : c = MakeBlock(p, height, tag)
    OBVIOUS
  <1>1. /\ c \in Seq(Headers) /\ Len(c) \in Nat /\ Len(c) > 1
        /\ Height(c) = height /\ Prev(c) = p /\ c[1] = GenesisHeader
        /\ \A n \in 1..Len(c) : Prefix(c, n) \in blocks \cup {c}
        /\ \A n \in 1..Len(c) - 1 : c[n].height < c[n + 1].height
        /\ \A h \in Heights : h < Height(c) =>
             \E n \in 1..Len(c) - 1 : c[n].height <= h /\ h < c[n + 1].height
        /\ \A l : l = Header(c).last_ds_final /\ l > 0
             => l < Len(c) /\ c[l + 1].height = c[l].height + 1
        /\ \A f : f = Header(c).last_final /\ f > 0
             => /\ f + 1 < Len(c)
                /\ c[f + 1].height = c[f].height + 1
                /\ c[f + 2].height = c[f].height + 2
    <2>1. SoundBlock(c, p, height)
      BY <1>0, NewBlockIsSound
    <2> QED BY <2>1 DEF SoundBlock
  <1>2. blocks' = blocks \cup {c}
    BY <1>0
  <1>3. TypeOK'
    <2>1. blocks' \subseteq Seq(Headers) /\ blocks \subseteq blocks'
      BY <1>1, <1>2 DEF IndInv, TypeOK
    <2>2. Approvals \subseteq Approvals' /\ DoomslugStates \subseteq DoomslugStates'
      BY <2>1 DEF Approvals, DoomslugStates
    <2>3. /\ sent' \in [Honest -> SUBSET Approvals'] /\ ds' \in [Honest -> DoomslugStates']
          /\ known' \in [Honest -> SUBSET blocks'] /\ head' \in [Honest -> blocks']
          /\ final_head' \in [Honest -> blocks'] /\ saved_target' \in [Honest -> Nat]
      BY <2>1, <2>2 DEF IndInv, TypeOK
    <2> QED BY <2>1, <2>3 DEF TypeOK
  <1>4. BlocksFormATree'
    <2>1. Len(c) >= 1
      BY <1>1
    <2> QED BY Zenon, <1>1, <1>2, <2>1 DEF IndInv, BlocksFormATree
  <1>5. BlocksAreApproved'
    <2>1. /\ Signed(p, height) \in SUBSET Validators
          /\ CanApprovedBlockBeProduced(Signed(p, height))
          /\ \A v \in Signed(p, height) \ Faulty : Approval(Prev(c), Height(c)) \in sent[v]
      BY <1>1, ConstantsAssumption DEF Signed, Honest, EnoughApprovals
    <2> QED BY <1>2, <2>1, Zenon DEF IndInv, BlocksAreApproved
  <1>6. FinalityPointersAreEarned'
    BY ZenonT(30), <1>1, <1>2 DEF IndInv, FinalityPointersAreEarned
  <1>7. SentIsCovered'
    BY <1>2 DEF IndInv, SentIsCovered
  <1>8. TipFollowsHead' /\ HeadsAreBest' /\ NoConflictingApprovals'
    BY DEF IndInv, TipFollowsHead, HeadsAreBest, NoConflictingApprovals
  <1>9. \A w \in Honest : /\ latest_known[w] \in Nat /\ latest_known'[w] \in Nat
                          /\ Height(head[w]) \in Nat
    BY HeadHeight DEF IndInv, TypeOK
  <1>10. LatestKnownCoversHead'
    BY <1>9 DEF IndInv, LatestKnownCoversHead
  <1>11. \A b \in blocks : Height(b) \in Nat
    BY HeadHeight DEF IndInv
  <1>12. ProducedIsKnown'
    <2> SUFFICES ASSUME NEW b \in blocks', Height(b) > GenesisHeight,
                        Producer[Height(b)] \in Honest
                 PROVE  Height(b) <= latest_known'[Producer[Height(b)]]
      BY DEF ProducedIsKnown
    <2>1. CASE b = c
      BY <1>1, <2>1
    <2>2. CASE b \in blocks
      <3>1. Height(b) <= latest_known[Producer[Height(b)]]
        BY <2>2 DEF IndInv, ProducedIsKnown
      <3> QED BY <1>9, <1>11, <2>2, <3>1
    <2> QED BY <1>2, <2>1, <2>2
  <1>13. OneBlockPerHonestHeight'
    <2>1. ASSUME NEW b \in blocks, Height(b) = height, height > GenesisHeight,
                 Producer[height] \in Honest
          PROVE  FALSE
      <3>1. height <= latest_known[Producer[height]]
        BY <2>1 DEF IndInv, ProducedIsKnown
      <3> QED BY <1>9, <1>11, <2>1, <3>1
    <2> QED BY <1>1, <1>2, <2>1 DEF IndInv, OneBlockPerHonestHeight
  <1> QED BY <1>3, <1>4, <1>5, <1>6, <1>7, <1>8, <1>10, <1>12, <1>13 DEF IndInv

=============================================================================
