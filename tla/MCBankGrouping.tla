--------------------------- MODULE MCBankGrouping ---------------------------
(***************************************************************************)
(* Instances of BankGrouping: memory controllers that put addresses        *)
(* anywhere, and ones that compute bank and row from the address bits.     *)
(***************************************************************************)
EXTENDS BankGrouping

CONSTANTS Banks, Rows    \* bounds: banks and rows of the memory

(* any bank and any row *)
AnyCells == [Addresses -> {0, 1} \X Rows]

Number(a) == a[1] * EndBlock + a[2]

(* bank and row take the address above some bit *)
LinearCells ==
  {[a \in Addresses |-> <<(Number(a) \div 2^b) % 2, Number(a) \div 2^r>>] :
     b \in 0 .. 1, r \in 0 .. 2}

(* any bank, and a row for each address *)
ScatteredCells ==
  {[a \in Addresses |-> <<bank[a], Number(a)>>] : bank \in [Addresses -> Banks]}

AllLayouts ==
  [cells : AnyCells \cup ScatteredCells, wrong : {0}]
    \cup [cells : LinearCells, wrong : {1}]

=============================================================================
