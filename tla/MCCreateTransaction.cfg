SPECIFICATION CreateSpec
CONSTANTS
    p = p
    q = q
    self = self
    Payee <- MCPayee
    From = self
    Config <- MCConfig
INVARIANTS
    InputsSound
    PaymentRight
    
CHECK_DEADLOCK FALSE
