---------------------------- MODULE MCEnumerate ----------------------------
(* Four models in the formula, two of them minimal. *)
EXTENDS Enumerate
CONSTANTS m_a, m_b, m_c, m_d
MCModels == {m_a, m_b, m_c, m_d}
MCMinimal == {m_a, m_b}
=============================================================================
