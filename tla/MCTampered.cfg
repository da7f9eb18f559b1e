SPECIFICATION Spec
INVARIANT TamperedIsRefused
