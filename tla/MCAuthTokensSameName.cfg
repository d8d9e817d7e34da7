SPECIFICATION AuthSpec
CONSTANTS
    MaxAccount = 2
    MaxSerial = 5
    alice = alice
    r1 = r1
    r2 = r2
    Name = {alice}
    Request = {r1, r2}
SYMMETRY RequestSymmetry
INVARIANT PasswordProvenForAccount
CHECK_DEADLOCK FALSE
