--------------------------- MODULE GenesisProofs ---------------------------
(***************************************************************************)
(* All genesis stakers build the same block, for any configuration, any    *)
(* order of meetings and any number of crashes.                            *)
(***************************************************************************)
EXTENDS Genesis, TLAPS

\* The block depends on the set of names met and not on their order: genesis.rs
\* keeps peer_pubkey in a map sorted by name and sorts the validators it bonds.
LEMMA BlockOfSet ==
  ASSUME NEW names, Range(names) = StakerSet
  PROVE  make_genesis_block(names) = GenesisBlock
<1>1. Range(names) = Range(Stakers)
  BY DEF StakerSet
<1>2. ByName(names) = ByName(Stakers)
  BY <1>1 DEF ByName
<1> QED  BY <1>1, <1>2 DEF make_genesis_block, GenesisBlock

\* OneGenesis with the domain of block, without which a step says nothing of it.
IInv == block \in [Nodes -> {None, GenesisBlock}]

LEMMA InsertedKeeps ==
  ASSUME IInv, NEW n \in Nodes, NEW names, Inserted(n, names)
  PROVE  IInv'
<1>1. CASE Range(names) = StakerSet
  <2>1. block' = [block EXCEPT ![n] = GenesisBlock] \/ block' = block
    BY <1>1, BlockOfSet DEF Inserted
  <2> QED  BY <2>1 DEF IInv
<1>2. CASE Range(names) # StakerSet
  BY <1>2 DEF Inserted, IInv
<1> QED  BY <1>1, <1>2

LEMMA InitKeeps == GenesisInit => IInv
  BY DEF GenesisInit, IInv

\* Only do_genesis, when the last staker is met, makes a block.
LEMMA StepKeeps == IInv /\ [GenesisNext]_genesisVars => IInv'
<1> SUFFICES ASSUME IInv, [GenesisNext]_genesisVars PROVE IInv'
  OBVIOUS
<1>1. CASE UNCHANGED genesisVars
  BY <1>1 DEF genesisVars, IInv
<1>2. ASSUME NEW n \in Nodes, StartGenesis(n) PROVE IInv'
  <2>1. CASE Inserted(n, <<n>>)
    BY <2>1, InsertedKeeps
  <2>2. CASE NoGenesis(n)
    BY <2>2 DEF NoGenesis, IInv
  <2> QED  BY <1>2, <2>1, <2>2 DEF StartGenesis
<1>3. ASSUME NEW n \in Nodes, NEW m \in Nodes, NEW h \in 0..1, NewPeer(n, m, h) PROVE IInv'
  <2>1. CASE Inserted(n, Append(met[n], m))
    BY <2>1, InsertedKeeps
  <2>2. CASE NoGenesis(n)
    BY <2>2 DEF NoGenesis, IInv
  <2> QED  BY <1>3, <2>1, <2>2 DEF NewPeer
<1>4. ASSUME NEW n \in Nodes, SaveGenesis(n) \/ Advance(n) \/ Crash(n) PROVE IInv'
  BY <1>4 DEF SaveGenesis, Advance, Crash, IInv
<1> QED  BY <1>1, <1>2, <1>3, <1>4 DEF GenesisNext

\* Whoever makes a genesis block, in whatever order it met its peers and however
\* often it crashed before it wrote genesis.bin, makes the block of all configured
\* stakers (do_genesis, make_genesis_block).
THEOREM OneGenesisAlways == GenesisSpec => []OneGenesis
<1>1. IInv => OneGenesis
  BY DEF IInv, OneGenesis
<1> QED  BY <1>1, InitKeeps, StepKeeps, PTL DEF GenesisSpec

============================================================================
